---- MODULE Spec2Model ----
(***************************************************************************)
(* golden-thread: archive store (db.rs, migrations.rs), import pipeline    *)
(* (importer.rs, importer/attachments.rs) and query layer (query.rs).      *)
(*                                                                         *)
(* SQL values: an Option<T> column is None (<<>>) or Some(v) (<<v>>).      *)
(* TEXT values are sequences of byte codes, compared as SQLite's BINARY    *)
(* collation compares them.                                                *)
(***************************************************************************)
EXTENDS Integers, Sequences, FiniteSets, TLC

VARIABLES
    \* archive.sqlite
    user_version,  \* PRAGMA user_version
    schema,        \* schema objects created by the migrations
    imports,       \* table imports
    recipients,    \* table recipients
    threads,       \* table threads
    thread_members,\* table thread_members
    messages,      \* table messages
    attachments,   \* table attachments
    reactions,     \* table reactions
    message_fts,   \* table message_fts
    tags,          \* table tags
    message_tags,  \* table message_tags
    \* the archive directory
    files,         \* attachments/: blobs by name and temp files
    \* the process
    conn,          \* a connection running open_archive
    backups,       \* the backup files the user can import
    imp,           \* the call of import_backup in progress
    tx,            \* tables of the open write transaction, or None
    workers,       \* attachment worker threads
    chan,          \* the mpsc channel from the workers to map_attachments
    ret,           \* result of the last call that returned
    now,           \* wall clock, ms
    pg,            \* a client paging through list_messages
    scrap,         \* last call of list_scrapbook_messages: arguments and result
    \* the media subsystem
    cache,         \* MediaCache: entries and evicted
    media,         \* previews/, its temp files and the preview requests in progress
    \* the attachment container format
    crypto,        \* a stream, its container and the result of reading it
    \* the host's client of the media worker process
    worker         \* MediaWorkerClient: next_id, pending, the pipes, the calls of request

schemavars == <<user_version, schema>>
tablevars == <<recipients, threads, thread_members, messages, attachments, reactions,
               message_fts>>
tagvars == <<tags, message_tags>>
importvars == <<backups, imp, tx, workers, chan, files>>
clientvars == <<pg, scrap>>
mediavars == <<cache, media>>

vars == <<schemavars, imports, tablevars, tagvars, importvars, conn, ret, now, clientvars,
          mediavars, crypto, worker>>

\* what the timeline and tag operations leave alone
outside_query == <<schemavars, imports, recipients, thread_members, attachments, reactions,
                   message_fts, importvars, conn, ret, mediavars, crypto, worker>>

\* what a tag operation that returns a Result leaves alone
outside_tags == <<schemavars, imports, recipients, thread_members, attachments, reactions,
                  message_fts, importvars, conn, mediavars, crypto, worker>>

----------------------------------------------------------------------------
(* Bounds *)

MaxLimit == 2      \* page limits 1..MaxLimit
MaxClock == 3      \* the clock runs 1..MaxClock
MaxTags == 2       \* tags in the tags table
MaxImports == 2    \* calls of import_backup
MaxPlainLen == 3   \* bytes of a plaintext stream
MaxChunkSize == 2  \* chunk sizes 1..MaxChunkSize of a container
MaxWorkers == 2    \* workers of decrypt_file_parallel
MaxPreviewChunks == 2 \* chunks of the attachment a preview is made of
MaxCacheTicks == 1 \* seconds the cache clock runs before and after one MEDIA_TTL

(* Program constants *)

FTS_BATCH_SIZE == 50000
ATTACHMENT_WORKERS == 4
ATTACHMENT_BATCH_SIZE == 500
MAX_MEDIA_FILES == 20
MEDIA_TTL == 300   \* Duration::from_secs(300)
MAGIC == <<71, 84, 65, 84>>   \* b"GTAT"
VERSION == 1
MAX_CHUNK_SIZE == 8388608     \* 8 * 1024 * 1024
TAG_LEN == 16
HEADER_LEN == 21

----------------------------------------------------------------------------
(* Archive store: migrations.rs MIGRATIONS. A migration is the sequence of *)
(* its statements; a statement creates a schema object IF NOT EXISTS, adds *)
(* a column with ALTER TABLE, or rewrites a column with UPDATE.            *)

Create(obj) == [op |-> "create", obj |-> obj]
AddColumn(obj) == [op |-> "add_column", obj |-> obj]
Update(obj) == [op |-> "update", obj |-> obj]

MIGRATIONS ==
    << <<Create("imports"), Create("threads"), Create("recipients"),
         Create("thread_members"), Create("messages"), Create("idx_messages_dedupe_key"),
         Create("attachments"), Create("idx_attachments_message_id"),
         Create("idx_attachments_sha256"), Create("idx_attachments_message_sha"),
         Create("reactions"), Create("idx_messages_thread_id"),
         Create("idx_messages_sender_id"), Create("message_fts")>>,
       <<AddColumn("attachments.size_bucket"), Update("attachments.size_bucket"),
         Create("idx_attachments_size_bucket_message")>>,
       <<Create("tags"), Create("message_tags"), Create("idx_message_tags_tag_id"),
         Create("idx_message_tags_message_id"), Create("idx_tags_display_order")>>,
       <<Create("idx_message_tags_message_id_tagged_at")>>,
       <<Create("idx_imports_source_hash")>>,
       <<AddColumn("messages.sort_ts"), Update("messages.sort_ts"),
         Create("idx_messages_thread_sort")>>,
       <<Create("trg_messages_sort_ts")>> >>

MigrationCount == Len(MIGRATIONS)

\* the schema objects migration k makes
MigrationObjects(k) ==
    {MIGRATIONS[k][i].obj : i \in {j \in DOMAIN MIGRATIONS[k] : MIGRATIONS[k][j].op # "update"}}

\* the schema of an archive on which migrations 1..v ran
SchemaAt(v) == UNION {MigrationObjects(k) : k \in 1..v}

----------------------------------------------------------------------------
(* Values *)

None == <<>>
Some(v) == <<v>>
IsSome(o) == o # <<>>
Unwrap(o) == o[1]

\* Option::or
OptOr(a, b) == IF IsSome(a) THEN a ELSE b
\* Option::unwrap_or
UnwrapOr(o, d) == IF IsSome(o) THEN o[1] ELSE d

\* i64::to_string / format!("{}", n): decimal digits as byte codes
RECURSIVE Decimal(_)
Decimal(n) ==
    IF n < 0 THEN <<45>> \o Decimal(0 - n)
    ELSE IF n < 10 THEN <<48 + n>>
    ELSE Decimal(n \div 10) \o <<48 + (n % 10)>>

\* "sms" / "mms" as bytes
KindText(kind) == IF kind = "sms" THEN <<115, 109, 115>> ELSE <<109, 109, 115>>

\* format!("sms:{}", id), format!("mms:{}", id)
MsgIdText(kind, n) == KindText(kind) \o <<58>> \o Decimal(n)

\* SQLite BINARY collation on TEXT: memcmp, then the shorter string first
RECURSIVE TextLess(_, _)
TextLess(a, b) ==
    IF b = <<>> THEN FALSE
    ELSE IF a = <<>> THEN TRUE
    ELSE IF a[1] # b[1] THEN a[1] < b[1]
    ELSE TextLess(Tail(a), Tail(b))

\* the first n elements of a sequence (SQL LIMIT n, n >= 0)
Take(s, n) == SubSeq(s, 1, IF n < Len(s) THEN n ELSE Len(s))

----------------------------------------------------------------------------
(* Import pipeline: mapping of decoded sms/mms rows to message rows.       *)
(* A decoded row is [id, thread_id, body, date_recv, date_sent, type,      *)
(* recipient_id]; id and thread_id are i64, the others Option.             *)

\* importer.rs is_outgoing_type: (msg_type as u64) & 0x1F
is_outgoing_type(msg_type) == (msg_type % 32) \in {21, 22, 23, 24, 25, 26, 2, 11}

\* importer.rs fallback_dedupe_key. SHA-256 is modelled as an injective tag
\* around its input; the "{}|{}|..." string is the tuple of its fields.
fallback_dedupe_key(kind, thread_id, sender_id, timestamp, message_type, body, is_outgoing) ==
    LET body_hash == IF IsSome(body) THEN <<"sha256", Unwrap(body)>> ELSE <<"none">>
        base == <<kind, thread_id, UnwrapOr(sender_id, <<>>), UnwrapOr(timestamp, 0),
                  message_type, IF is_outgoing THEN 1 ELSE 0, body_hash>>
    IN  <<"fb", base>>

\* the loop body of map_signal_db for one sms/mms row: the MessageRowData
\* pushed to the batch
MessageRowData(kind, r) ==
    LET is_outgoing == IF IsSome(r.type) THEN is_outgoing_type(Unwrap(r.type)) ELSE FALSE
        sender_id == IF is_outgoing THEN None
                     ELSE IF IsSome(r.recipient_id) THEN Some(Decimal(Unwrap(r.recipient_id)))
                     ELSE None
        dedupe_key == IF r.id > 0 THEN <<"id", MsgIdText(kind, r.id)>>
                      ELSE fallback_dedupe_key(kind, Decimal(r.thread_id), sender_id,
                                               OptOr(r.date_sent, r.date_recv), "text",
                                               r.body, is_outgoing)
    IN  [id          |-> MsgIdText(kind, r.id),
         thread_id   |-> Decimal(r.thread_id),
         sender_id   |-> sender_id,
         sent_at     |-> OptOr(r.date_sent, r.date_recv),
         received_at |-> r.date_recv,
         body        |-> r.body,
         is_outgoing |-> IF is_outgoing THEN 1 ELSE 0,
         dedupe_key  |-> dedupe_key]

\* the rowid SQLite gives a row inserted into messages (TEXT PRIMARY KEY, so
\* an implicit rowid): the largest rowid in the table plus one
NextRowid(table) ==
    IF table = {} THEN 1
    ELSE 1 + (CHOOSE n \in {m.rowid : m \in table} : \A m \in table : m.rowid <= n)

\* one VALUES tuple of insert_message_batch: the row as stored, with the
\* sort_ts parameter sent_at.or(received_at).unwrap_or(0); the insert trigger
\* of migration 7 rewrites a sort_ts of 0 to COALESCE(sent_at, received_at, 0)
StoredMessage(row, rowid) ==
    LET supplied == UnwrapOr(OptOr(row.sent_at, row.received_at), 0)
        sort_ts == IF supplied = 0
                   THEN UnwrapOr(row.sent_at, UnwrapOr(row.received_at, 0))
                   ELSE supplied
    IN  [rowid |-> rowid, id |-> row.id, thread_id |-> row.thread_id,
         sender_id |-> row.sender_id, sent_at |-> row.sent_at,
         received_at |-> row.received_at, sort_ts |-> sort_ts, body |-> row.body,
         is_outgoing |-> row.is_outgoing, dedupe_key |-> row.dedupe_key]

\* plain INSERT that never skips a row
MessageConflict_never(table, row) == FALSE

\* INSERT OR IGNORE INTO messages: a row is skipped when its id (PRIMARY KEY)
\* or its dedupe_key (UNIQUE) is already in the table
MessageConflict(table, row) ==
    \E m \in table : m.id = row.id \/ m.dedupe_key = row.dedupe_key

\* importer.rs insert_message_batch over the rows of one decoded table, in
\* the order the SELECT returns them; yields the table and the change count
RECURSIVE insert_message_batch(_, _, _)
insert_message_batch(table, batch, changes) ==
    IF batch = <<>> THEN [table |-> table, changes |-> changes]
    ELSE LET row == Head(batch)
         IN  IF MessageConflict(table, row)
             THEN insert_message_batch(table, Tail(batch), changes)
             ELSE insert_message_batch(table \cup {StoredMessage(row, NextRowid(table))},
                                       Tail(batch), changes + 1)

\* SELECT ... FROM sms / mms: a rowid table with _id INTEGER PRIMARY KEY is
\* scanned in ascending _id
RECURSIVE ScanById(_)
ScanById(rows) ==
    IF rows = {} THEN <<>>
    ELSE LET r == CHOOSE x \in rows : \A y \in rows : x.id <= y.id
         IN  <<r>> \o ScanById(rows \ {r})

\* the rows of a decoded table mapped in scan order
RECURSIVE MapRows(_, _)
MapRows(kind, scan) ==
    IF scan = <<>> THEN <<>>
    ELSE <<MessageRowData(kind, Head(scan))>> \o MapRows(kind, Tail(scan))

----------------------------------------------------------------------------
(* Import pipeline: the mapping steps of map_signal_db on the tables the   *)
(* write transaction works on. A decoded database is a record of its       *)
(* tables recipient, thread, sms, mms, part and reaction.                  *)

EmptyTables ==
    [recipients |-> {}, threads |-> {}, thread_members |-> {}, messages |-> {},
     attachments |-> {}, reactions |-> {}, message_fts |-> <<>>]

\* the recipients loop: INSERT OR IGNORE INTO recipients, id is the PRIMARY KEY
MapRecipients(T, d) ==
    LET rows == {[id |-> Decimal(r.id), phone_e164 |-> r.e164,
                  profile_name |-> r.profile_given_name,
                  contact_name |-> r.system_joined_name] : r \in d.recipient}
    IN  [T EXCEPT !.recipients =
            @ \cup {row \in rows : ~ \E x \in T.recipients : x.id = row.id}]

\* the thread SELECT: LEFT JOIN recipient; name is the first of system name,
\* profile name and phone that is not NULL (no groups table row joins)
ThreadName(d, th) ==
    LET recs == {r \in d.recipient : IsSome(th.recipient_id) /\ r.id = Unwrap(th.recipient_id)}
    IN  IF recs = {} THEN None
        ELSE LET r == CHOOSE x \in recs : TRUE
             IN  OptOr(r.system_joined_name, OptOr(r.profile_given_name, r.e164))

\* the threads loop: INSERT OR IGNORE INTO threads and thread_members
MapThreads(T, d) ==
    LET rows == {[id |-> Decimal(th.id), name |-> ThreadName(d, th),
                  last_message_at |-> th.date] : th \in d.thread}
        members == {[thread_id |-> Decimal(th.id),
                     recipient_id |-> Decimal(Unwrap(th.recipient_id))] :
                        th \in {x \in d.thread : IsSome(x.recipient_id)}}
    IN  [T EXCEPT !.threads = @ \cup {row \in rows : ~ \E x \in T.threads : x.id = row.id},
                  !.thread_members = @ \cup members]

\* the sms loop and the mms loop
MapSms(T, d) ==
    [T EXCEPT !.messages = insert_message_batch(@, MapRows("sms", ScanById(d.sms)), 0).table]
MapMms_skipped(T, d) == T
MapMms(T, d) ==
    [T EXCEPT !.messages = insert_message_batch(@, MapRows("mms", ScanById(d.mms)), 0).table]

\* importer.rs map_reactions: the message id of an integer column value is
\* "mms:<v>", a missing author is "unknown"; rows without emoji are skipped
ReactionRow(r) ==
    [message_id |-> MsgIdText("mms", r.message_id),
     reactor_id |-> IF IsSome(r.author_id) THEN Decimal(Unwrap(r.author_id))
                    ELSE <<117, 110, 107, 110, 111, 119, 110>>,
     emoji |-> Unwrap(r.emoji), reacted_at |-> r.date]

\* importer.rs insert_reaction_batch: INSERT OR IGNORE, PRIMARY KEY
\* (message_id, reactor_id, emoji)
RECURSIVE insert_reaction_batch(_, _)
insert_reaction_batch(table, batch) ==
    IF batch = <<>> THEN table
    ELSE LET r == Head(batch)
         IN  IF ~ IsSome(r.emoji) THEN insert_reaction_batch(table, Tail(batch))
             ELSE LET row == ReactionRow(r)
                  IN  IF \E x \in table : /\ x.message_id = row.message_id
                                          /\ x.reactor_id = row.reactor_id
                                          /\ x.emoji = row.emoji
                      THEN insert_reaction_batch(table, Tail(batch))
                      ELSE insert_reaction_batch(table \cup {row}, Tail(batch))

MapReactions(T, d) == [T EXCEPT !.reactions = insert_reaction_batch(@, d.reaction)]

\* importer.rs update_thread_activity: last_message_at = MAX(sort_ts) of the
\* thread's messages, NULL without messages
update_thread_activity(T) ==
    LET maxTs(th) ==
          LET ts == {m.sort_ts : m \in {x \in T.messages : x.thread_id = th.id}}
          IN  IF ts = {} THEN None ELSE Some(CHOOSE t \in ts : \A u \in ts : u <= t)
    IN  [T EXCEPT !.threads = {[th EXCEPT !.last_message_at = maxTs(th)] : th \in @}]

\* body IS NOT NULL AND length(trim(body)) > 0
Indexable(m) == IsSome(m.body) /\ Unwrap(m.body) \notin {"", " "}

\* messages in ascending rowid
RECURSIVE ScanByRowid(_)
ScanByRowid(rows) ==
    IF rows = {} THEN <<>>
    ELSE LET r == CHOOSE x \in rows : \A y \in rows : x.rowid <= y.rowid
         IN  <<r>> \o ScanByRowid(rows \ {r})

RECURSIVE FtsRows(_)
FtsRows(scan) ==
    IF scan = <<>> THEN <<>>
    ELSE <<[message_id |-> Head(scan).id, thread_id |-> Head(scan).thread_id,
            sender_id |-> Head(scan).sender_id, body |-> Head(scan).body]>>
         \o FtsRows(Tail(scan))

\* importer/fts.rs build_message_fts: DELETE FROM message_fts, then INSERT ...
\* SELECT in rowid ranges (start, start + batch_size] while start < max_rowid
RECURSIVE FtsBatches(_, _, _, _)
FtsBatches(msgs, start, max_rowid, fts) ==
    IF start < max_rowid
    THEN LET end == start + FTS_BATCH_SIZE
             batch == {m \in msgs : m.rowid > start /\ m.rowid <= end /\ Indexable(m)}
         IN  FtsBatches(msgs, end, max_rowid, fts \o FtsRows(ScanByRowid(batch)))
    ELSE fts

\* the (start, end] pairs of the while loop for a MAX(rowid)
RECURSIVE FtsRanges(_, _)
FtsRanges(start, max_rowid) ==
    IF start < max_rowid
    THEN <<[start |-> start, end |-> start + FTS_BATCH_SIZE]>>
         \o FtsRanges(start + FTS_BATCH_SIZE, max_rowid)
    ELSE <<>>

\* a rebuild that keeps the rows of the earlier imports
build_message_fts_incremental(T) ==
    [T EXCEPT !.message_fts = FtsBatches(T.messages, 0, NextRowid(T.messages) - 1, @)]

build_message_fts(T) ==
    [T EXCEPT !.message_fts = FtsBatches(T.messages, 0, NextRowid(T.messages) - 1, <<>>)]

----------------------------------------------------------------------------
(* Query layer: timelines *)

\* ORDER BY sort_ts DESC, id DESC
RECURSIVE OrderSortTsDesc(_)
OrderSortTsDesc(rows) ==
    IF rows = {} THEN <<>>
    ELSE LET top == CHOOSE x \in rows : \A y \in rows \ {x} :
                        \/ y.sort_ts < x.sort_ts
                        \/ (y.sort_ts = x.sort_ts /\ TextLess(y.id, x.id))
         IN  <<top>> \o OrderSortTsDesc(rows \ {top})

\* the MessageRow built by query_map: the selected columns (no sort_ts)
MessageRow(m) ==
    [id |-> m.id, thread_id |-> m.thread_id, sender_id |-> m.sender_id,
     sent_at |-> m.sent_at, received_at |-> m.received_at, body |-> m.body,
     is_outgoing |-> (m.is_outgoing # 0)]

RECURSIVE MapMessageRow(_)
MapMessageRow(s) == IF s = <<>> THEN <<>> ELSE <<MessageRow(Head(s))>> \o MapMessageRow(Tail(s))

\* list_messages with the id tie-break of the cursor left out
list_messages_no_tiebreak(table, thread_id, before_ts, before_id, limit) ==
    LET rows ==
          IF IsSome(before_ts)
          THEN {m \in table : m.thread_id = thread_id /\ m.sort_ts < Unwrap(before_ts)}
          ELSE {m \in table : m.thread_id = thread_id}
    IN  MapMessageRow(Take(OrderSortTsDesc(rows), limit))

\* query.rs list_messages: the three WHERE clauses by (before_ts, before_id)
list_messages(table, thread_id, before_ts, before_id, limit) ==
    LET rows ==
          IF IsSome(before_ts) /\ IsSome(before_id)
          THEN {m \in table : /\ m.thread_id = thread_id
                              /\ \/ m.sort_ts < Unwrap(before_ts)
                                 \/ (m.sort_ts = Unwrap(before_ts)
                                     /\ TextLess(m.id, Unwrap(before_id)))}
          ELSE IF IsSome(before_ts)
          THEN {m \in table : m.thread_id = thread_id /\ m.sort_ts < Unwrap(before_ts)}
          ELSE {m \in table : m.thread_id = thread_id}
    IN  MapMessageRow(Take(OrderSortTsDesc(rows), limit))

----------------------------------------------------------------------------
(* Archives the timeline queries run on: the messages table after one      *)
(* import of a decoded database with tables sms and mms.                   *)

\* (date_sent, date_recv) of a decoded row
DatePairs == {<<None, None>>, <<None, Some(1)>>, <<Some(2), Some(1)>>}

DecodedThreadIds == {1, 2}

DecodedRowsWithId(id) ==
    {[id |-> id, thread_id |-> t, body |-> Some("b"), date_sent |-> d[1],
      date_recv |-> d[2], type |-> Some(1), recipient_id |-> Some(1)] :
        t \in DecodedThreadIds, d \in DatePairs}

\* a decoded table: at most one row per _id of ids
DecodedTables(ids) ==
    {rows \in SUBSET (UNION {DecodedRowsWithId(id) : id \in ids}) :
        \A r1, r2 \in rows : r1.id = r2.id => r1 = r2}

\* the messages table of an empty archive after map_signal_db has inserted
\* the sms rows and then the mms rows
ImportedMessages(sms, mms) ==
    MapMms(MapSms(EmptyTables, [sms |-> sms]), [mms |-> mms]).messages

ThreadIdTexts == {Decimal(t) : t \in DecodedThreadIds}

\* the stored row of a returned MessageRow (id is the PRIMARY KEY)
RowOf(table, id) == CHOOSE m \in table : m.id = id

NoFiles == [blobs |-> {}, temps |-> {}]
ConnClosed == [pc |-> "closed"]
ImpIdle == [pc |-> "idle", seq |-> 0]

PgIdle == [phase |-> "idle", thread_id |-> <<>>, limit |-> 0,
           before_ts |-> None, before_id |-> None, acc |-> <<>>, calls |-> 0]
ScrapIdle == [called |-> FALSE]

\* MediaCache::new
MediaCacheNew == [entries |-> <<>>, evicted |-> <<>>]

\* no preview request, no preview file, no key inserted so far
MediaIdle == [previews |-> <<>>, temps |-> <<>>, unlinked |-> {}, inserted |-> {}, req |-> <<>>,
              fsops |-> {}]

\* no stream read or written
CryptoIdle == [pc |-> "idle"]

\* no MediaWorkerClient spawned
WorkerIdle == [pc |-> "none"]

\* the media subsystem and the container format at rest
ElsewhereIdle ==
    /\ cache = MediaCacheNew
    /\ media = MediaIdle
    /\ crypto = CryptoIdle
    /\ worker = WorkerIdle

\* everything outside the tables a query specification fills: migrations
\* applied, nothing imported through import_backup, no call in progress
ArchiveAtRest ==
    /\ user_version = MigrationCount
    /\ schema = SchemaAt(MigrationCount)
    /\ imports = {}
    /\ recipients = {}
    /\ thread_members = {}
    /\ attachments = {}
    /\ reactions = {}
    /\ message_fts = <<>>
    /\ files = NoFiles
    /\ conn = ConnClosed
    /\ backups = {}
    /\ imp = ImpIdle
    /\ tx = None
    /\ workers = {}
    /\ chan = <<>>
    /\ ret = None

QueryArchiveIdle == ArchiveAtRest /\ ElsewhereIdle

\* an archive nothing was imported into and nobody reads, whatever
\* attachments/ holds: what the media subsystem runs beside
NoArchiveFiles ==
    /\ user_version = MigrationCount
    /\ schema = SchemaAt(MigrationCount)
    /\ imports = {}
    /\ recipients = {}
    /\ thread_members = {}
    /\ attachments = {}
    /\ reactions = {}
    /\ message_fts = <<>>
    /\ conn = ConnClosed
    /\ backups = {}
    /\ imp = ImpIdle
    /\ tx = None
    /\ workers = {}
    /\ chan = <<>>
    /\ ret = None
    /\ messages = {}
    /\ threads = {}
    /\ tags = {}
    /\ message_tags = {}
    /\ pg = PgIdle
    /\ scrap = ScrapIdle

\* the same with an empty attachments/
NoArchive ==
    /\ NoArchiveFiles
    /\ files = NoFiles

InitTimeline ==
    /\ QueryArchiveIdle
    /\ \E sms \in DecodedTables({2}), mms \in DecodedTables({1, 2, 10}) :
           messages = ImportedMessages(sms, mms)
    /\ threads = {}
    /\ tags = {}
    /\ message_tags = {}
    /\ now = 1
    /\ pg = PgIdle
    /\ scrap = ScrapIdle

\* the client's step after a call returned page: stop on an empty page, else
\* keep the rows and move the cursor to the (sort_ts, id) of the last row
PgAfter(p, page) ==
    IF page = <<>>
    THEN [p EXCEPT !.phase = "done", !.calls = @ + 1]
    ELSE LET last == page[Len(page)]
         IN  [p EXCEPT !.phase = "paging",
                       !.before_ts = Some(RowOf(messages, last.id).sort_ts),
                       !.before_id = Some(last.id),
                       !.acc = @ \o page,
                       !.calls = @ + 1]

\* first call: list_messages(conn, thread_id, None, None, limit)
FirstPage(thread_id, limit) ==
    /\ pg.phase = "idle"
    /\ pg' = PgAfter([pg EXCEPT !.thread_id = thread_id, !.limit = limit],
                     list_messages(messages, thread_id, None, None, limit))
    /\ UNCHANGED <<outside_query, messages, threads, tags, message_tags, now, scrap>>

\* next call: list_messages(conn, thread_id, Some(ts), Some(id), limit)
NextPage ==
    /\ pg.phase = "paging"
    /\ pg' = PgAfter(pg, list_messages(messages, pg.thread_id, pg.before_ts,
                                       pg.before_id, pg.limit))
    /\ UNCHANGED <<outside_query, messages, threads, tags, message_tags, now, scrap>>

\* ORDER BY sort_ts ASC, id ASC
RECURSIVE OrderSortTsAsc(_)
OrderSortTsAsc(rows) ==
    IF rows = {} THEN <<>>
    ELSE LET bottom == CHOOSE x \in rows : \A y \in rows \ {x} :
                           \/ x.sort_ts < y.sort_ts
                           \/ (x.sort_ts = y.sort_ts /\ TextLess(x.id, y.id))
         IN  <<bottom>> \o OrderSortTsAsc(rows \ {bottom})

\* list_messages_after with the id tie-break of the cursor left out
list_messages_after_no_tiebreak(table, thread_id, after_ts, after_id, limit) ==
    LET rows == {m \in table : m.thread_id = thread_id /\ m.sort_ts > after_ts}
    IN  MapMessageRow(Take(OrderSortTsAsc(rows), limit))

\* query.rs list_messages_after: the two WHERE clauses by after_id
list_messages_after(table, thread_id, after_ts, after_id, limit) ==
    LET rows ==
          IF IsSome(after_id)
          THEN {m \in table : /\ m.thread_id = thread_id
                              /\ \/ m.sort_ts > after_ts
                                 \/ (m.sort_ts = after_ts
                                     /\ TextLess(Unwrap(after_id), m.id))}
          ELSE {m \in table : m.thread_id = thread_id /\ m.sort_ts > after_ts}
    IN  MapMessageRow(Take(OrderSortTsAsc(rows), limit))

\* query.rs get_message: query_row fails when no row has the id
get_message(table, message_id) ==
    IF \E m \in table : m.id = message_id
    THEN [ok |-> TRUE, row |-> MessageRow(RowOf(table, message_id))]
    ELSE [ok |-> FALSE]

\* Vec::reverse
reverse(s) == [i \in 1..Len(s) |-> s[Len(s) + 1 - i]]

\* query.rs list_messages_around: the page before the centre turned
\* oldest-first, the centre, the page after it
list_messages_around(table, message_id, before, after) ==
    LET got == get_message(table, message_id)
    IN  IF ~got.ok THEN [ok |-> FALSE]
        ELSE LET center == got.row
                 center_ts == UnwrapOr(OptOr(center.sent_at, center.received_at), 0)
                 older == reverse(list_messages(table, center.thread_id, Some(center_ts),
                                                Some(center.id), before))
                 newer == list_messages_after(table, center.thread_id, center_ts,
                                              Some(center.id), after)
             IN  [ok |-> TRUE, rows |-> older \o <<center>> \o newer]

\* the client asks for the window around a message and keeps the answer
ListAround(message_id, before, after) ==
    /\ pg.phase = "idle"
    /\ pg' = [phase |-> "around", message_id |-> message_id, before |-> before,
              after |-> after,
              result |-> list_messages_around(messages, message_id, before, after)]
    /\ UNCHANGED <<outside_query, messages, threads, tags, message_tags, now, scrap>>

\* the ids a client may name: the four an import can produce and one no
\* import produces
AroundIds == {MsgIdText("sms", 2), MsgIdText("mms", 1), MsgIdText("mms", 2),
              MsgIdText("mms", 10), MsgIdText("mms", 3)}

NextTimeline ==
    \/ \E thread_id \in ThreadIdTexts, limit \in 1..MaxLimit : FirstPage(thread_id, limit)
    \/ NextPage
    \/ \E message_id \in AroundIds, before \in 0..MaxLimit, after \in 0..MaxLimit :
           ListAround(message_id, before, after)

SpecTimeline == InitTimeline /\ [][NextTimeline]_vars

\* (sort_ts, id) of a returned row is strictly before (sort_ts, id) of another
KeyLess(table, a, b) ==
    LET ma == RowOf(table, a.id)
        mb == RowOf(table, b.id)
    IN  \/ ma.sort_ts < mb.sort_ts
        \/ (ma.sort_ts = mb.sort_ts /\ TextLess(ma.id, mb.id))

\* C1: when the client has paged a thread with (sort_ts, id) cursors until an
\* empty page, the concatenated pages are strictly descending in
\* (sort_ts, id), so free of duplicates, and hold exactly the thread's
\* messages.
C1_CursorTotality ==
    pg.phase = "done" =>
        /\ \A i \in 1..(Len(pg.acc) - 1) : KeyLess(messages, pg.acc[i + 1], pg.acc[i])
        /\ {pg.acc[i].id : i \in 1..Len(pg.acc)}
               = {m.id : m \in {x \in messages : x.thread_id = pg.thread_id}}
        /\ \A i \in 1..Len(pg.acc) : pg.acc[i] = MessageRow(RowOf(messages, pg.acc[i].id))

\* a finished paging of three or more messages over several pages, two of
\* the messages having the same sort_ts
C1_Witness ==
    /\ pg.phase = "done"
    /\ Len(pg.acc) >= 3
    /\ pg.calls >= 3
    /\ \E i \in 1..(Len(pg.acc) - 1) :
           RowOf(messages, pg.acc[i].id).sort_ts = RowOf(messages, pg.acc[i + 1].id).sort_ts

\* the stored messages of the centre's thread strictly before / after the
\* centre in (sort_ts, id) order
OlderThan(table, c) ==
    {m \in table : m.thread_id = c.thread_id /\ KeyLess(table, m, c)}
NewerThan(table, c) ==
    {m \in table : m.thread_id = c.thread_id /\ KeyLess(table, c, m)}

AroundAnswered == pg.phase = "around" /\ pg.result.ok

\* C19: for an existing message m, list_messages_around(m, before, after)
\* returns a contiguous, strictly ascending window of m's thread in
\* (sort_ts, id) order: the min(before, older) messages right before m
\* oldest-first, m once, the min(after, newer) messages right after m; no
\* message of another thread and no duplicate, also with equal sort_ts.
C19_AroundWindow ==
    AroundAnswered =>
        LET r == pg.result.rows
            c == RowOf(messages, pg.message_id)
            nb == IF pg.before < Cardinality(OlderThan(messages, c))
                  THEN pg.before ELSE Cardinality(OlderThan(messages, c))
            na == IF pg.after < Cardinality(NewerThan(messages, c))
                  THEN pg.after ELSE Cardinality(NewerThan(messages, c))
        IN  /\ Len(r) = nb + 1 + na
            /\ r[nb + 1] = MessageRow(c)
            /\ \A i \in 1..Len(r) :
                   /\ \E m \in messages : m.id = r[i].id
                   /\ r[i] = MessageRow(RowOf(messages, r[i].id))
                   /\ r[i].thread_id = c.thread_id
            /\ \A i \in 1..(Len(r) - 1) : KeyLess(messages, r[i], r[i + 1])
            /\ \A m \in messages :
                   (/\ m.thread_id = c.thread_id
                    /\ ~ KeyLess(messages, m, r[1])
                    /\ ~ KeyLess(messages, r[Len(r)], m))
                       => \E i \in 1..Len(r) : r[i].id = m.id

\* a window cut on the older side whose centre has a neighbour of the same
\* sort_ts on each side, another thread holding a message of that sort_ts
C19_Witness ==
    /\ AroundAnswered
    /\ LET r == pg.result.rows
           c == RowOf(messages, pg.message_id)
       IN  /\ pg.before >= 1 /\ pg.after >= 1
           /\ Len(r) = pg.before + 1 + pg.after
           /\ RowOf(messages, r[pg.before].id).sort_ts = c.sort_ts
           /\ RowOf(messages, r[pg.before + 2].id).sort_ts = c.sort_ts
           /\ \E m \in messages : m.thread_id # c.thread_id /\ m.sort_ts = c.sort_ts

----------------------------------------------------------------------------
(* Query layer: tags and the scrapbook *)

\* format!("tag:{}", now)
TagIdText(ms) == <<116, 97, 103, 58>> \o Decimal(ms)

\* create_tag numbering the tags by COUNT(1) instead of MAX(display_order) + 1
NewTag_count(table, name, color, ms) ==
    [id |-> TagIdText(ms), name |-> name, color |-> color, created_at |-> ms,
     display_order |-> Cardinality(table)]

\* query.rs create_tag: the tag it builds from the clock and MAX(display_order)
NewTag(table, name, color, ms) ==
    LET max_order == IF table = {} THEN None
                     ELSE Some(CHOOSE d \in {t.display_order : t \in table} :
                                   \A t \in table : t.display_order <= d)
    IN  [id |-> TagIdText(ms), name |-> name, color |-> color, created_at |-> ms,
         display_order |-> UnwrapOr(max_order, -1) + 1]

\* INSERT INTO tags fails on a used id (PRIMARY KEY) or a used name (UNIQUE)
TagConflict(table, tag) == \E t \in table : t.id = tag.id \/ t.name = tag.name

\* query.rs create_tag: Ok(Tag) when the INSERT went through, the error of
\* the INSERT otherwise
create_tag(name, color) ==
    /\ Cardinality(tags) < MaxTags
    /\ LET tag == NewTag(tags, name, color, now)
       IN  IF TagConflict(tags, tag)
           THEN /\ tags' = tags
                /\ ret' = Some([call |-> "create_tag", name |-> name, ok |-> FALSE])
           ELSE /\ tags' = tags \cup {tag}
                /\ ret' = Some([call |-> "create_tag", name |-> name, ok |-> TRUE,
                                tag |-> tag])
    /\ UNCHANGED <<outside_tags, messages, threads, message_tags, now, pg, scrap>>

\* INSERT INTO message_tags fails on a used (message_id, tag_id) (PRIMARY
\* KEY) and, with foreign_keys = ON, on a message or tag that does not exist
MessageTagRejected(table, message_id, tag_id) ==
    \/ \E r \in table : r.message_id = message_id /\ r.tag_id = tag_id
    \/ ~ \E m \in messages : m.id = message_id
    \/ ~ \E t \in tags : t.id = tag_id

\* the for loop of set_message_tags: one autocommitted INSERT per tag id,
\* left at the first one that fails
RECURSIVE InsertMessageTags(_, _, _, _)
InsertMessageTags(table, message_id, tag_ids, ms) ==
    IF tag_ids = <<>> THEN [table |-> table, ok |-> TRUE]
    ELSE IF MessageTagRejected(table, message_id, Head(tag_ids))
    THEN [table |-> table, ok |-> FALSE]
    ELSE InsertMessageTags(
             table \cup {[message_id |-> message_id, tag_id |-> Head(tag_ids), tagged_at |-> ms]},
             message_id, Tail(tag_ids), ms)

\* query.rs set_message_tags: DELETE, then the INSERT loop, on a connection
\* in autocommit mode; ret is the Result with the arguments of the call, and
\* the caller's scrapbook page is dropped with the write
set_message_tags(message_id, tag_ids) ==
    /\ LET deleted == {r \in message_tags : r.message_id # message_id}
           done == InsertMessageTags(deleted, message_id, tag_ids, now)
       IN  /\ message_tags' = done.table
           /\ ret' = Some([call |-> "set_message_tags", message_id |-> message_id,
                           tag_ids |-> tag_ids, ok |-> done.ok])
    /\ scrap' = ScrapIdle
    /\ UNCHANGED <<outside_tags, messages, threads, tags, now, pg>>

\* the helper msg_ts of list_scrapbook_messages
msg_ts(msg) == UnwrapOr(OptOr(msg.sent_at, msg.received_at), 0)

\* COALESCE(m.sent_at, m.received_at, 0)
CoalesceTs(m) == UnwrapOr(m.sent_at, UnwrapOr(m.received_at, 0))

\* query.rs are_messages_adjacent: COUNT over (m1, m2) with an m3 between
\* them is 0
are_messages_adjacent(table, earlier_id, later_id) ==
    LET pairs == {p \in table \X table :
                    /\ p[1].id = earlier_id
                    /\ p[2].id = later_id
                    /\ p[1].thread_id = p[2].thread_id
                    /\ \E m3 \in table :
                         /\ m3.thread_id = p[1].thread_id
                         /\ \/ CoalesceTs(m3) > CoalesceTs(p[1])
                            \/ (CoalesceTs(m3) = CoalesceTs(p[1]) /\ TextLess(p[1].id, m3.id))
                         /\ \/ CoalesceTs(m3) < CoalesceTs(p[2])
                            \/ (CoalesceTs(m3) = CoalesceTs(p[2]) /\ TextLess(m3.id, p[2].id))}
    IN  Cardinality(pairs) = 0

\* ORDER BY mt.tagged_at DESC, m.id DESC over joined rows [m, mt, t]
RECURSIVE OrderTaggedAtDesc(_)
OrderTaggedAtDesc(rows) ==
    IF rows = {} THEN <<>>
    ELSE LET top == CHOOSE x \in rows : \A y \in rows \ {x} :
                        \/ y.mt.tagged_at < x.mt.tagged_at
                        \/ (y.mt.tagged_at = x.mt.tagged_at /\ TextLess(y.m.id, x.m.id))
         IN  <<top>> \o OrderTaggedAtDesc(rows \ {top})

\* the SELECT of list_scrapbook_messages: messages JOIN message_tags JOIN
\* threads, the three WHERE clauses by (before_ts, before_id)
ScrapbookRows(tag_id, before_ts, before_id, limit) ==
    LET joined == {[m |-> m, mt |-> mt, t |-> t] :
                     m \in messages, mt \in message_tags, t \in threads}
        rows == {j \in joined :
                   /\ j.mt.message_id = j.m.id
                   /\ j.t.id = j.m.thread_id
                   /\ j.mt.tag_id = tag_id
                   /\ IF IsSome(before_ts) /\ IsSome(before_id)
                      THEN \/ j.mt.tagged_at < Unwrap(before_ts)
                           \/ (j.mt.tagged_at = Unwrap(before_ts)
                               /\ TextLess(j.m.id, Unwrap(before_id)))
                      ELSE IF IsSome(before_ts)
                      THEN j.mt.tagged_at < Unwrap(before_ts)
                      ELSE TRUE}
    IN  Take(OrderTaggedAtDesc(rows), limit)

\* the is_discontinuous flag of the i-th selected row
IsDiscontinuous(rows, i) ==
    IF i > 1
    THEN LET prev_message == MessageRow(rows[i - 1].m)
             message == MessageRow(rows[i].m)
         IN  IF prev_message.thread_id = message.thread_id
             THEN LET prev_ts == msg_ts(prev_message)
                      curr_ts == msg_ts(message)
                      earlier_id == IF curr_ts < prev_ts THEN message.id ELSE prev_message.id
                      later_id == IF curr_ts < prev_ts THEN prev_message.id ELSE message.id
                  IN  ~ are_messages_adjacent(messages, earlier_id, later_id)
             ELSE FALSE
    ELSE FALSE

\* query.rs list_scrapbook_messages
list_scrapbook_messages(tag_id, before_ts, before_id, limit) ==
    LET rows == ScrapbookRows(tag_id, before_ts, before_id, limit)
    IN  [i \in 1..Len(rows) |->
            [message |-> MessageRow(rows[i].m),
             thread_name |-> rows[i].t.name,
             is_discontinuous |-> IsDiscontinuous(rows, i)]]

----------------------------------------------------------------------------
(* Archives the tag operations run on: three messages imported from a      *)
(* decoded mms table, their threads imported or not.                       *)

TagDatePairs == {<<None, Some(1)>>, <<Some(2), Some(1)>>}

TagDecodedRow(id, t, d) ==
    [id |-> id, thread_id |-> t, body |-> Some("b"), date_sent |-> d[1],
     date_recv |-> d[2], type |-> Some(1), recipient_id |-> Some(1)]

\* a row of threads as map_signal_db inserts it
ThreadRow(t) == [id |-> Decimal(t), name |-> Some("Alice"), last_message_at |-> Some(1)]

TagNames == {"red"}

InitTags ==
    /\ QueryArchiveIdle
    /\ \E d2 \in TagDatePairs, d3 \in TagDatePairs, d10 \in TagDatePairs,
          t3 \in DecodedThreadIds :
           messages = ImportedMessages({}, {TagDecodedRow(2, 1, d2), TagDecodedRow(3, t3, d3),
                                            TagDecodedRow(10, 1, d10)})
    /\ threads \in {{ThreadRow(1), ThreadRow(2)}, {ThreadRow(1)}}
    /\ tags = {}
    /\ message_tags = {}
    /\ now = 1
    /\ pg = PgIdle
    /\ scrap = ScrapIdle

\* the clock advances
Tick ==
    /\ now < MaxClock
    /\ now' = now + 1
    /\ UNCHANGED <<outside_query, messages, threads, tags, message_tags, pg, scrap>>

\* a call of list_scrapbook_messages and its result, which replaces the
\* Result the caller held
ListScrapbook(tag_id, before_ts, before_id, limit) ==
    /\ scrap' = [called |-> TRUE, tag_id |-> tag_id,
                 result |-> list_scrapbook_messages(tag_id, before_ts, before_id, limit)]
    /\ ret' = None
    /\ UNCHANGED <<outside_tags, messages, threads, tags, message_tags, now, pg>>

\* the tag id lists a caller passes to set_message_tags
TagIdLists ==
    {<<>>, <<TagIdText(0)>>} \cup {<<t.id>> : t \in tags} \cup {<<t.id, t.id>> : t \in tags}

NextTags ==
    \/ Tick
    \/ \E name \in TagNames : create_tag(name, "#f00")
    \/ \E m \in messages, tag_ids \in TagIdLists : set_message_tags(m.id, tag_ids)
    \/ \E t \in tags, limit \in 1..(MaxLimit + 1) :
           \/ ListScrapbook(t.id, None, None, limit)
           \/ \E mt \in message_tags :
                  ListScrapbook(t.id, Some(mt.tagged_at), Some(mt.message_id), limit)

SpecTags == InitTags /\ [][NextTags]_vars

\* a is strictly before b in the lexicographic (sort_ts, id) order
TimelineLess(a, b) ==
    \/ a.sort_ts < b.sort_ts
    \/ (a.sort_ts = b.sort_ts /\ TextLess(a.id, b.id))

\* some message of the thread of a and b lies strictly between them
Intervening(a, b) ==
    \E m3 \in messages :
        /\ m3.thread_id = a.thread_id
        /\ \/ (TimelineLess(a, m3) /\ TimelineLess(m3, b))
           \/ (TimelineLess(b, m3) /\ TimelineLess(m3, a))

\* C2: in a result of list_scrapbook_messages, is_discontinuous[i] is true
\* exactly when i > 0, the i-th message is in the thread of the (i-1)-th and
\* a message of that thread lies strictly between the two in (sort_ts, id)
\* order; it is false for i = 0 and for a change of thread.
C2_AdjacencyLaw ==
    scrap.called =>
        \A i \in 1..Len(scrap.result) :
            scrap.result[i].is_discontinuous =
                /\ i > 1
                /\ scrap.result[i].message.thread_id = scrap.result[i - 1].message.thread_id
                /\ Intervening(RowOf(messages, scrap.result[i - 1].message.id),
                               RowOf(messages, scrap.result[i].message.id))

\* the rows of message_tags of one message
TagRowsOf(table, message_id) == {r \in table : r.message_id = message_id}

\* the step is a call of set_message_tags that returned ok
SetTagsReturns(ok) ==
    /\ IsSome(ret')
    /\ Unwrap(ret').call = "set_message_tags"
    /\ Unwrap(ret').ok = ok
    /\ scrap' = ScrapIdle
    /\ now' = now /\ tags' = tags

\* C11: set_message_tags is an atomic replace. When it returns Ok the rows of
\* the message are one row per id of tag_ids, all with one tagged_at; when
\* it returns an error the rows of the message are what they were before.
C11_AtomicReplace ==
    [][/\ SetTagsReturns(TRUE) =>
           LET call == Unwrap(ret')
               rows == TagRowsOf(message_tags', call.message_id)
           IN  /\ {r.tag_id : r \in rows} = {call.tag_ids[i] : i \in 1..Len(call.tag_ids)}
               /\ Cardinality(rows) = Len(call.tag_ids)
               /\ \A r1 \in rows, r2 \in rows : r1.tagged_at = r2.tagged_at
       /\ SetTagsReturns(FALSE) =>
           TagRowsOf(message_tags', Unwrap(ret').message_id)
               = TagRowsOf(message_tags, Unwrap(ret').message_id)]_vars

----------------------------------------------------------------------------
(* A client paging the scrapbook of one tag on an archive nobody writes to *)

\* the tag create_tag made at clock 1
PagedTag == NewTag({}, "red", "#f00", 1)

\* the message_tags tables set_message_tags calls at clocks 1..MaxClock leave
\* for one tag: at most one row per message
TaggedTables(msgs, tag_id) ==
    {rows \in SUBSET {[message_id |-> m.id, tag_id |-> tag_id, tagged_at |-> ms] :
                          m \in msgs, ms \in 1..MaxClock} :
        \A r1, r2 \in rows : r1.message_id = r2.message_id => r1 = r2}

InitScrapbook ==
    /\ QueryArchiveIdle
    /\ \E d2 \in TagDatePairs, d3 \in TagDatePairs, d10 \in TagDatePairs,
          t3 \in DecodedThreadIds :
           messages = ImportedMessages({}, {TagDecodedRow(2, 1, d2), TagDecodedRow(3, t3, d3),
                                            TagDecodedRow(10, 1, d10)})
    /\ threads \in {{ThreadRow(1), ThreadRow(2)}, {ThreadRow(1)}}
    /\ tags = {PagedTag}
    /\ message_tags \in TaggedTables(messages, PagedTag.id)
    /\ now = MaxClock
    /\ pg = PgIdle
    /\ scrap = ScrapIdle

\* the tagged_at of the row that ties a returned message to the tag
TaggedAt(message_id, tag_id) ==
    (CHOOSE r \in message_tags : r.message_id = message_id /\ r.tag_id = tag_id).tagged_at

\* the client's step after a call returned page: stop on an empty page, else
\* keep the rows and move the cursor to the (tagged_at, id) of the last row
ScrapPgAfter(p, page) ==
    IF page = <<>>
    THEN [p EXCEPT !.phase = "scrap_done", !.calls = @ + 1]
    ELSE LET last == page[Len(page)].message
         IN  [p EXCEPT !.phase = "scrap_paging",
                       !.before_ts = Some(TaggedAt(last.id, p.tag_id)),
                       !.before_id = Some(last.id),
                       !.acc = @ \o page,
                       !.calls = @ + 1]

\* first call: list_scrapbook_messages(conn, tag_id, None, None, limit)
FirstScrapPage(tag_id, limit) ==
    /\ pg.phase = "idle"
    /\ pg' = ScrapPgAfter([phase |-> "idle", tag_id |-> tag_id, limit |-> limit,
                           before_ts |-> None, before_id |-> None, acc |-> <<>>,
                           calls |-> 0],
                          list_scrapbook_messages(tag_id, None, None, limit))
    /\ UNCHANGED <<outside_query, messages, threads, tags, message_tags, now, scrap>>

\* next call: list_scrapbook_messages(conn, tag_id, Some(ts), Some(id), limit)
NextScrapPage ==
    /\ pg.phase = "scrap_paging"
    /\ pg' = ScrapPgAfter(pg, list_scrapbook_messages(pg.tag_id, pg.before_ts,
                                                      pg.before_id, pg.limit))
    /\ UNCHANGED <<outside_query, messages, threads, tags, message_tags, now, scrap>>

NextScrapbook ==
    \/ \E t \in tags, limit \in 1..MaxLimit : FirstScrapPage(t.id, limit)
    \/ NextScrapPage

SpecScrapbook == InitScrapbook /\ [][NextScrapbook]_vars

\* (tagged_at, id) of a returned row is strictly before that of another
TaggedLess(tag_id, a, b) ==
    \/ TaggedAt(a.message.id, tag_id) < TaggedAt(b.message.id, tag_id)
    \/ /\ TaggedAt(a.message.id, tag_id) = TaggedAt(b.message.id, tag_id)
       /\ TextLess(a.message.id, b.message.id)

\* C20: when the client has paged the scrapbook of a tag with
\* (tagged_at, message id) cursors until an empty page, the concatenated
\* pages are strictly descending in (tagged_at, id), so free of duplicates,
\* and hold exactly the messages that carry the tag.
C20_ScrapbookPaging ==
    pg.phase = "scrap_done" =>
        /\ \A i \in 1..Len(pg.acc) :
               \E r \in message_tags :
                   r.message_id = pg.acc[i].message.id /\ r.tag_id = pg.tag_id
        /\ \A i \in 1..(Len(pg.acc) - 1) : TaggedLess(pg.tag_id, pg.acc[i + 1], pg.acc[i])
        /\ {pg.acc[i].message.id : i \in 1..Len(pg.acc)}
               = {r.message_id : r \in {x \in message_tags : x.tag_id = pg.tag_id}}

----------------------------------------------------------------------------
(* Tag management: create_tag, update_tag and delete_tag on an archive     *)
(* whose messages carry tags                                               *)

\* UPDATE tags SET name fails on a name another tag has (UNIQUE)
RenameConflict(table, id, name) == \E t \in table : t.id # id /\ t.name = name

\* rows a statement with WHERE id = ?  changes
Changes(table, id) == Cardinality({t \in table : t.id = id})

\* query.rs update_tag: UPDATE tags SET name, color WHERE id; ret is the
\* Result with the argument and the row count conn.execute reports
update_tag(id, name, color) ==
    /\ LET hit == \E t \in tags : t.id = id
           failed == hit /\ RenameConflict(tags, id, name)
       IN  /\ tags' = IF failed THEN tags
                      ELSE {IF t.id = id THEN [t EXCEPT !.name = name, !.color = color]
                            ELSE t : t \in tags}
           /\ ret' = Some([call |-> "update_tag", id |-> id, ok |-> ~failed,
                           changes |-> IF failed THEN 0 ELSE Changes(tags, id)])
    /\ UNCHANGED <<outside_tags, messages, threads, message_tags, now, pg, scrap>>

\* a message_tags table without ON DELETE CASCADE on tag_id
CascadeTagDelete_off(table, id) == table

\* FOREIGN KEY (tag_id) REFERENCES tags(id) ON DELETE CASCADE, with
\* foreign_keys = ON
CascadeTagDelete(table, id) == {r \in table : r.tag_id # id}

\* query.rs delete_tag: DELETE FROM tags WHERE id
delete_tag(id) ==
    /\ tags' = {t \in tags : t.id # id}
    /\ message_tags' = IF \E t \in tags : t.id = id
                       THEN CascadeTagDelete(message_tags, id)
                       ELSE message_tags
    /\ ret' = Some([call |-> "delete_tag", id |-> id, ok |-> TRUE,
                    changes |-> Changes(tags, id)])
    /\ UNCHANGED <<outside_tags, messages, threads, now, pg, scrap>>

CrudNames == {"red", "blue"}
CrudColors == {"#f00", "#0f0"}

\* the tag ids a caller may name: those of the table and one of no tag
CrudTagIds == {t.id : t \in tags} \cup {TagIdText(0)}

InitTagCrud ==
    /\ QueryArchiveIdle
    /\ messages = ImportedMessages({}, {TagDecodedRow(2, 1, <<None, Some(1)>>),
                                        TagDecodedRow(3, 2, <<None, Some(1)>>)})
    /\ threads = {ThreadRow(1), ThreadRow(2)}
    /\ tags = {}
    /\ message_tags = {}
    /\ now = 1
    /\ pg = PgIdle
    /\ scrap = ScrapIdle

NextTagCrud ==
    \/ Tick
    \/ \E name \in CrudNames, color \in CrudColors : create_tag(name, color)
    \/ \E id \in CrudTagIds, name \in CrudNames, color \in CrudColors :
           update_tag(id, name, color)
    \/ \E id \in CrudTagIds : delete_tag(id)
    \/ \E m \in messages, t \in tags, u \in tags :
           set_message_tags(m.id, IF t = u THEN <<t.id>> ELSE <<t.id, u.id>>)

SpecTagCrud == InitTagCrud /\ [][NextTagCrud]_vars

\* C21: delete_tag(t) removes the tag t and every message_tags row that
\* references t and leaves the other tags, the rows of the other tags and
\* the messages as they are; update_tag changes only the name and color of
\* the addressed tag and leaves its id, created_at, display_order and the
\* message_tags rows as they are.
C21_TagFrame ==
    [][/\ \A id \in CrudTagIds :
             delete_tag(id) =>
                 /\ tags' = {t \in tags : t.id # id}
                 /\ message_tags' = {r \in message_tags : r.tag_id # id}
                 /\ ~ \E r \in message_tags' : r.tag_id = id
                 /\ messages' = messages
       /\ \A id \in CrudTagIds, name \in CrudNames, color \in CrudColors :
             update_tag(id, name, color) =>
                 /\ message_tags' = message_tags
                 /\ messages' = messages
                 /\ {t \in tags' : t.id # id} = {t \in tags : t.id # id}
                 /\ \A t \in tags : t.id = id =>
                        \E u \in tags' :
                            /\ u.id = id
                            /\ u.created_at = t.created_at
                            /\ u.display_order = t.display_order
                            /\ u \in {t, [t EXCEPT !.name = name, !.color = color]}
                 /\ Cardinality(tags') = Cardinality(tags)]_vars

\* delete_tag has removed a tag while the tag that is left is on both
\* messages
C21_Witness ==
    /\ IsSome(ret)
    /\ Unwrap(ret).call = "delete_tag"
    /\ Unwrap(ret).changes = 1
    /\ Cardinality(tags) = 1
    /\ ~ \E t \in tags : t.id = Unwrap(ret).id
    /\ Cardinality(message_tags) = 2

\* the existing tags have pairwise distinct display_order values
DistinctDisplayOrder ==
    \A t \in tags, u \in tags : t.display_order = u.display_order => t = u

\* the step is a create_tag that inserted a tag
Created(name, color) == create_tag(name, color) /\ tags' # tags

\* C22: after any sequence of create_tag, update_tag and delete_tag the
\* existing tags have pairwise distinct display_order values; a tag created
\* in an empty table gets display_order 0 and each later one the maximum
\* display_order of the existing tags plus 1.
C22_DisplayOrder ==
    /\ []DistinctDisplayOrder
    /\ [][\A name \in CrudNames, color \in CrudColors :
             Created(name, color) =>
                 \E t \in tags' :
                     /\ tags' = tags \cup {t}
                     /\ t \notin tags
                     /\ IF tags = {} THEN t.display_order = 0
                        ELSE /\ \E u \in tags : t.display_order = u.display_order + 1
                             /\ \A u \in tags : u.display_order < t.display_order]_vars

\* two tags after the tag of display_order 0 was deleted and a tag created
C22_Witness ==
    /\ Cardinality(tags) = 2
    /\ \A t \in tags : t.display_order > 0

----------------------------------------------------------------------------
(* Archive store: open_archive on an archive whose migrations are applied  *)

\* no recovery: the rows stay as they are
RecoverImports_skipped(rows) == rows

\* db.rs open_archive, the UPDATE after apply_migrations: running rows
\* become failed, stats_json = COALESCE(stats_json, '{"error":"import interrupted"}')
RecoverImports(rows) ==
    {IF r.status = "running"
     THEN [r EXCEPT !.status = "failed",
                    !.stats_json = IF IsSome(@) THEN @ ELSE Some("import interrupted")]
     ELSE r : r \in rows}

----------------------------------------------------------------------------
(* Import pipeline: import_backup_with_progress *)

\* what the import steps leave alone
outside_import == <<schemavars, tagvars, conn, now, clientvars, backups, mediavars, crypto, worker>>

Tables ==
    [recipients |-> recipients, threads |-> threads, thread_members |-> thread_members,
     messages |-> messages, attachments |-> attachments, reactions |-> reactions,
     message_fts |-> message_fts]

\* the committed tables become T
SetTables(T) ==
    /\ recipients' = T.recipients
    /\ threads' = T.threads
    /\ thread_members' = T.thread_members
    /\ messages' = T.messages
    /\ attachments' = T.attachments
    /\ reactions' = T.reactions
    /\ message_fts' = T.message_fts

\* UPDATE imports SET status = ?, stats_json = ? WHERE id = ?
UpdateImport(rows, id, status, stats_json) ==
    {IF r.id = id THEN [r EXCEPT !.status = status, !.stats_json = Some(stats_json)] ELSE r :
        r \in rows}

\* AttachmentImportStats { total: 0, found: 0, missing: 0, inserted: 0 }
NoAttachmentStats == [total |-> 0, found |-> 0, missing |-> 0, inserted |-> 0]

\* import_backup starts: Uuid::new_v4, the temp dir, then open_archive
ImportOpen(b) ==
    /\ imp.pc = "idle"
    /\ imp.seq < MaxImports
    /\ imports' = RecoverImports(imports)
    /\ imp' = [pc |-> "opened", seq |-> imp.seq + 1, import_id |-> imp.seq + 1,
               plan |-> b, before |-> Tables, batch |-> <<>>, stats |-> NoAttachmentStats]
    /\ ret' = None
    /\ UNCHANGED <<outside_import, tablevars, tx, workers, chan, files>>

\* INSERT INTO imports fails on a used id (PRIMARY KEY) and, once migration
\* 5 has created idx_imports_source_hash, on a used source_hash
ImportRowRejected(rows, row) ==
    \/ \E r \in rows : r.id = row.id
    \/ ("idx_imports_source_hash" \in schema /\ \E r \in rows : r.source_hash = row.source_hash)

\* the duplicate check and the INSERT of the running row
ImportInsert ==
    /\ imp.pc = "opened"
    /\ LET exists == \E r \in imports :
                        r.source_hash = imp.plan.source_hash /\ r.status = "success"
           row == [id |-> imp.import_id, source_hash |-> imp.plan.source_hash,
                   status |-> "running", stats_json |-> None]
       IN  IF exists
           THEN /\ ret' = Some([call |-> "import_backup", seq |-> imp.seq,
                                result |-> "already loaded"])
                /\ imp' = [pc |-> "idle", seq |-> imp.seq]
                /\ UNCHANGED imports
           ELSE IF ImportRowRejected(imports, row)
           THEN /\ ret' = Some([call |-> "import_backup", seq |-> imp.seq,
                                result |-> "sqlite error"])
                /\ imp' = [pc |-> "idle", seq |-> imp.seq]
                /\ UNCHANGED imports
           ELSE /\ imports' = imports \cup {row}
                /\ imp' = [imp EXCEPT !.pc = "decode"]
                /\ UNCHANGED ret
    /\ UNCHANGED <<outside_import, tablevars, tx, workers, chan, files>>

\* decode_backup succeeds; map_signal_db opens the write transaction
DecodeOk ==
    /\ imp.pc = "decode"
    /\ imp' = [imp EXCEPT !.pc = "recipients"]
    /\ tx' = Some(Tables)
    /\ UNCHANGED <<outside_import, imports, tablevars, workers, chan, files, ret>>

\* decode_backup fails with a message that mentions "unsupported"
DecodeUnsupported ==
    /\ imp.pc = "decode"
    /\ ret' = Some([call |-> "import_backup", seq |-> imp.seq,
                    result |-> "unsupported backup version"])
    /\ imp' = [pc |-> "idle", seq |-> imp.seq]
    /\ UNCHANGED <<outside_import, imports, tablevars, tx, workers, chan, files>>

\* decode_backup fails otherwise: the row is set to failed
DecodeFailed ==
    /\ imp.pc = "decode"
    /\ imports' = UpdateImport(imports, imp.import_id, "failed", "error")
    /\ ret' = Some([call |-> "import_backup", seq |-> imp.seq, result |-> "decode error"])
    /\ imp' = [pc |-> "idle", seq |-> imp.seq]
    /\ UNCHANGED <<outside_import, tablevars, tx, workers, chan, files>>

\* one mapping step of map_signal_db inside the transaction
MapStep(pc, T, next) ==
    /\ imp.pc = pc
    /\ tx' = Some(T)
    /\ imp' = [imp EXCEPT !.pc = next]
    /\ UNCHANGED <<outside_import, imports, tablevars, workers, chan, files, ret>>

StepRecipients == MapStep("recipients", MapRecipients(Unwrap(tx), imp.plan.decoded), "threads")
StepThreads == MapStep("threads", MapThreads(Unwrap(tx), imp.plan.decoded), "sms")
StepSms == MapStep("sms", MapSms(Unwrap(tx), imp.plan.decoded), "mms")
StepMms == MapStep("mms", MapMms(Unwrap(tx), imp.plan.decoded), "attachments_start")
StepReactions == MapStep("reactions", MapReactions(Unwrap(tx), imp.plan.decoded), "activity")
StepActivity == MapStep("activity", update_thread_activity(Unwrap(tx)), "fts")
StepFts == MapStep("fts", build_message_fts(Unwrap(tx)), "commit")

MappingPcs == {"recipients", "threads", "sms", "mms", "attachments_start", "attachments",
               "reactions", "activity", "fts", "commit"}

\* the rusqlite Transaction is dropped without commit
Rollback_commits ==
    /\ SetTables(Unwrap(tx))
    /\ tx' = None
Rollback ==
    /\ UNCHANGED tablevars
    /\ tx' = None

\* the Err arm of import_backup after map_signal_db: the transaction was
\* dropped by map_signal_db, the row is set to failed. cause is what made
\* map_signal_db fail: a statement, or the Error result of a worker
MappingFailedWith(cause) ==
    /\ Rollback
    /\ imports' = UpdateImport(imports, imp.import_id, "failed", "error")
    /\ ret' = Some([call |-> "import_backup", seq |-> imp.seq, result |-> "mapping error",
                    at |-> imp.pc, cause |-> cause])
    /\ imp' = [pc |-> "idle", seq |-> imp.seq]
    /\ chan' = <<>>

MappingFailed == MappingFailedWith("statement")

\* a statement of a mapping step fails
MapError ==
    /\ imp.pc \in MappingPcs
    /\ MappingFailed
    /\ UNCHANGED <<outside_import, workers, files>>

\* tx.commit()
Commit ==
    /\ imp.pc = "commit"
    /\ SetTables(Unwrap(tx))
    /\ tx' = None
    /\ imp' = [imp EXCEPT !.pc = "finish"]
    /\ UNCHANGED <<outside_import, imports, workers, chan, files, ret>>

\* the final UPDATE of the import row and Ok(())
Finish ==
    /\ imp.pc = "finish"
    /\ imports' = UpdateImport(imports, imp.import_id, "success", "stats")
    /\ ret' = Some([call |-> "import_backup", seq |-> imp.seq, result |-> "ok",
                    stats |-> imp.stats])
    /\ imp' = [pc |-> "idle", seq |-> imp.seq]
    /\ UNCHANGED <<outside_import, tablevars, tx, workers, chan, files>>

----------------------------------------------------------------------------
(* Import pipeline: importer/attachments.rs. A decoded part row is         *)
(* [id, mid, data_size, file]: file is the content of the exported         *)
(* Attachment_<id>_<unique_id>.bin, None when the file does not exist.     *)
(* A blob under attachments/ is [name, plain, key]: the container of       *)
(* plain encrypted under key; a temp file is [owner, plain, key].          *)

\* the master key load_or_create_master_key returns (cached per process)
MasterKey == "master_key"

\* the hash encrypt_stream_with_hash_chunk returns: SHA-256 of the plaintext
Sha256(plain) == <<"sha256", plain>>

\* decrypt_to_bytes / decrypt_stream: the plaintext under the right key
Decrypt(blob, key) == IF blob.key = key THEN Some(blob.plain) ELSE None

\* bucket_from_size on the sizes of the model
bucket_from_size(size_bytes) ==
    IF size_bytes <= 1048575 THEN 0 ELSE IF size_bytes <= 10485759 THEN 1 ELSE 2

\* the jobs loop of map_attachments: rows with a NULL mid are skipped
RECURSIVE AttachmentJobs(_)
AttachmentJobs(scan) ==
    IF scan = <<>> THEN <<>>
    ELSE LET r == Head(scan)
         IN  IF IsSome(r.mid)
             THEN <<[mid |-> Unwrap(r.mid), data_size |-> r.data_size, file |-> r.file]>>
                  \o AttachmentJobs(Tail(scan))
             ELSE AttachmentJobs(Tail(scan))

\* jobs.chunks(chunk_size)
Chunks(jobs, chunk_size) ==
    [k \in 1..((Len(jobs) + chunk_size - 1) \div chunk_size) |->
        SubSeq(jobs, (k - 1) * chunk_size + 1,
               IF k * chunk_size < Len(jobs) THEN k * chunk_size ELSE Len(jobs))]

\* AttachmentRowData with a hash that depends on the message
AttachmentRowData_per_message(job) ==
    LET sha256 == <<"sha256", Unwrap(job.file), job.mid>>
        message_id == MsgIdText("mms", job.mid)
    IN  [id |-> <<"att", message_id, sha256>>, message_id |-> message_id,
         sha256 |-> sha256, size_bytes |-> job.data_size, size_bucket |-> None]

\* the AttachmentRowData a worker builds after copy_attachment
AttachmentRowData(job) ==
    LET sha256 == Sha256(Unwrap(job.file))
        message_id == MsgIdText("mms", job.mid)
        size_bytes == OptOr(job.data_size, Some(Len(Unwrap(job.file))))
    IN  [id |-> <<"att", message_id, sha256>>, message_id |-> message_id,
         sha256 |-> sha256, size_bytes |-> size_bytes,
         size_bucket |-> Some(bucket_from_size(Unwrap(size_bytes)))]

\* insert_attachment_batch: INSERT OR IGNORE, id is the PRIMARY KEY and
\* idx_attachments_message_sha is UNIQUE on (message_id, sha256)
RECURSIVE insert_attachment_batch(_, _)
insert_attachment_batch(table, batch) ==
    IF batch = <<>> THEN table
    ELSE LET row == Head(batch)
         IN  IF \E a \in table : \/ a.id = row.id
                                 \/ (a.message_id = row.message_id /\ a.sha256 = row.sha256)
             THEN insert_attachment_batch(table, Tail(batch))
             ELSE insert_attachment_batch(table \cup {row}, Tail(batch))

\* map_attachments up to drop(result_tx): the jobs, the workers spawned
AttachStart ==
    /\ imp.pc = "attachments_start"
    /\ LET jobs == AttachmentJobs(ScanById(imp.plan.decoded.part))
           worker_count == IF Len(jobs) < ATTACHMENT_WORKERS THEN Len(jobs)
                           ELSE ATTACHMENT_WORKERS
           chunk_size == (Len(jobs) + worker_count - 1) \div worker_count
       IN  IF jobs = <<>>
           THEN /\ imp' = [imp EXCEPT !.pc = "reactions"]
                /\ UNCHANGED workers
           ELSE /\ imp' = [imp EXCEPT !.pc = "attachments", !.stats.total = Len(jobs)]
                /\ workers' = workers \cup
                      {[wid |-> <<imp.seq, k>>, jobs |-> Chunks(jobs, chunk_size)[k],
                        pc |-> "next"] : k \in DOMAIN Chunks(jobs, chunk_size)}
    /\ chan' = <<>>
    /\ UNCHANGED <<outside_import, imports, tablevars, tx, files, ret>>

\* worker_tx.send: the result is queued while the receiver of this worker's
\* import is alive, dropped otherwise (let _ = ...)
Sent(w, result) ==
    IF imp.pc = "attachments" /\ imp.seq = w.wid[1] THEN Append(chan, result) ELSE chan

\* the worker goes on to its next job; its thread ends after the last one
Advance(w) ==
    IF Len(w.jobs) > 1
    THEN (workers \ {w}) \cup {[w EXCEPT !.jobs = Tail(@), !.pc = "next"]}
    ELSE workers \ {w}

\* the worker takes a job whose file is missing
WorkerMissing(w) ==
    /\ w.pc = "next"
    /\ ~ IsSome(Head(w.jobs).file)
    /\ chan' = Sent(w, [result |-> "Missing"])
    /\ workers' = Advance(w)
    /\ UNCHANGED <<outside_import, imports, tablevars, tx, imp, files, ret>>

\* copy_attachment up to dest.exists(): the container is written to a temp
\* file of the worker's own, then the destination is looked up
WorkerEncrypt(w) ==
    /\ w.pc = "next"
    /\ IsSome(Head(w.jobs).file)
    /\ files' = [files EXCEPT !.temps =
                    @ \cup {[owner |-> w.wid, plain |-> Unwrap(Head(w.jobs).file),
                             key |-> MasterKey]}]
    /\ LET hash == Sha256(Unwrap(Head(w.jobs).file))
       IN  workers' = (workers \ {w}) \cup
              {[w EXCEPT !.pc = IF \E b \in files.blobs : b.name = hash
                                THEN "exists" ELSE "persist"]}
    /\ UNCHANGED <<outside_import, imports, tablevars, tx, imp, chan, ret>>

\* the temp file is removed and nothing is stored
Persist_dropped(fs, w, hash) == [fs EXCEPT !.temps = {t \in @ : t.owner # w.wid}]

\* temp.persist(&dest): rename over dest
Persist(fs, w, hash) ==
    LET temp == CHOOSE t \in fs.temps : t.owner = w.wid
    IN  [blobs |-> {b \in fs.blobs : b.name # hash}
                      \cup {[name |-> hash, plain |-> temp.plain, key |-> temp.key]},
         temps |-> fs.temps \ {temp}]

\* the temp file is dropped (deleted)
DropTemp(fs, w) == [fs EXCEPT !.temps = {t \in @ : t.owner # w.wid}]

\* the rest of copy_attachment and the Found result
WorkerFound(w) ==
    /\ w.pc \in {"exists", "persist"}
    /\ LET hash == Sha256(Unwrap(Head(w.jobs).file))
       IN  files' = IF w.pc = "exists" THEN DropTemp(files, w) ELSE Persist(files, w, hash)
    /\ chan' = Sent(w, [result |-> "Found", row |-> AttachmentRowData(Head(w.jobs))])
    /\ workers' = Advance(w)
    /\ UNCHANGED <<outside_import, imports, tablevars, tx, imp, ret>>

\* copy_attachment fails (open, temp, encryption or persist): Error is sent
\* and the worker breaks out of its loop
WorkerError(w) ==
    /\ w.pc \in {"next", "persist"}
    /\ IsSome(Head(w.jobs).file)
    /\ files' = DropTemp(files, w)
    /\ chan' = Sent(w, [result |-> "Error"])
    /\ workers' = workers \ {w}
    /\ UNCHANGED <<outside_import, imports, tablevars, tx, imp, ret>>

\* a writer loop that counts the Found results only
Counted_found_only(stats, result) ==
    IF result.result = "Found" THEN [stats EXCEPT !.found = @ + 1] ELSE stats

\* found_files += 1 on Found, missing_files += 1 on Missing
Counted(stats, result) ==
    IF result.result = "Found" THEN [stats EXCEPT !.found = @ + 1]
    ELSE [stats EXCEPT !.missing = @ + 1]

\* the number of rows an insert_attachment_batch call has changed
InsertedRows(table, batch) ==
    Cardinality(insert_attachment_batch(table, batch)) - Cardinality(table)

\* one iteration of for result in result_rx
WriterRecv ==
    /\ imp.pc = "attachments"
    /\ chan # <<>>
    /\ LET result == Head(chan)
       IN  IF result.result = "Error"
           THEN /\ MappingFailedWith("worker")
                /\ UNCHANGED <<outside_import, workers, files>>
           ELSE /\ chan' = Tail(chan)
                /\ IF result.result = "Found"
                   THEN LET batch == Append(imp.batch, result.row)
                        IN  IF Len(batch) >= ATTACHMENT_BATCH_SIZE
                            THEN /\ tx' = Some([Unwrap(tx) EXCEPT !.attachments =
                                                  insert_attachment_batch(@, batch)])
                                 /\ imp' = [imp EXCEPT
                                              !.batch = <<>>,
                                              !.stats = [Counted(@, result) EXCEPT
                                                  !.inserted = @ +
                                                      InsertedRows(Unwrap(tx).attachments, batch)]]
                            ELSE /\ imp' = [imp EXCEPT !.batch = batch,
                                                       !.stats = Counted(@, result)]
                                 /\ UNCHANGED tx
                   ELSE /\ imp' = [imp EXCEPT !.stats = Counted(@, result)]
                        /\ UNCHANGED tx
                /\ UNCHANGED <<outside_import, imports, tablevars, workers, files, ret>>

\* the channel is closed and drained: the last batch is inserted
AttachFinish ==
    /\ imp.pc = "attachments"
    /\ chan = <<>>
    /\ ~ \E w \in workers : w.wid[1] = imp.seq
    /\ tx' = Some([Unwrap(tx) EXCEPT !.attachments = insert_attachment_batch(@, imp.batch)])
    /\ imp' = [imp EXCEPT !.pc = "reactions", !.batch = <<>>,
                          !.stats.inserted = @ + InsertedRows(Unwrap(tx).attachments, imp.batch)]
    /\ UNCHANGED <<outside_import, imports, tablevars, workers, chan, files, ret>>

----------------------------------------------------------------------------
(* Import pipeline: the backups imported *)

\* a decoded mms row; rows of the same body differ in their _id only
MmsRow(id, body) ==
    [id |-> id, thread_id |-> 1, body |-> Some(body), date_recv |-> Some(1),
     date_sent |-> Some(2), type |-> Some(20), recipient_id |-> Some(1)]

SmsRow(id) ==
    [id |-> id, thread_id |-> 1, body |-> Some("s"), date_recv |-> Some(3),
     date_sent |-> None, type |-> Some(23), recipient_id |-> Some(1)]

Recipient1 ==
    [id |-> 1, e164 |-> Some("+1"), profile_given_name |-> None,
     system_joined_name |-> Some("Alice")]
Thread1 == [id |-> 1, recipient_id |-> Some(1), date |-> Some(9)]

Reaction1 == [message_id |-> 1, author_id |-> Some(1), emoji |-> Some("+"), date |-> Some(4)]

Decoded(sms, mms, part, reaction) ==
    [recipient |-> {Recipient1}, thread |-> {Thread1}, sms |-> sms, mms |-> mms,
     part |-> part, reaction |-> reaction]

\* the foreign ids and bodies of the mms rows of the message backups
MmsPool == {MmsRow(-1, "a"), MmsRow(0, "a"), MmsRow(1, "a")}

\* backup 1 and a later backup 2 that holds every row of backup 1
MessageBackups ==
    {{[source_hash |-> 1, decoded |-> Decoded({SmsRow(1)}, ab[1], {}, <<Reaction1>>)],
      [source_hash |-> 2, decoded |-> Decoded({SmsRow(1)}, ab[2], {}, <<Reaction1>>)]} :
        ab \in {x \in (SUBSET {MmsRow(0, "a"), MmsRow(1, "a")}) \X (SUBSET MmsPool) :
                    x[1] # {} /\ x[1] \subseteq x[2]}}

PartRow(id, mid, file) == [id |-> id, mid |-> mid, data_size |-> None, file |-> file]

\* the decoded content of the attachment backups: two mms rows and parts
AttachmentDecoded(part) ==
    Decoded({}, {MmsRow(1, "a"), MmsRow(2, "b")}, part, <<Reaction1>>)

\* the second part row next to PartRow(1, Some(1), Some(<<7>>)): same message
\* or another, same plaintext or another, file missing, mid NULL
SecondParts ==
    {PartRow(2, Some(1), Some(<<7>>)), PartRow(2, Some(2), Some(<<7>>)),
     PartRow(2, Some(2), Some(<<8, 8>>)), PartRow(2, Some(2), None),
     PartRow(2, None, Some(<<7>>))}

\* backup 1 with one or two part rows; backup 2 is another backup file whose
\* one part has the plaintext of backup 1's first part
AttachmentBackups ==
    {{[source_hash |-> 1, decoded |-> AttachmentDecoded({PartRow(1, Some(1), Some(<<7>>))} \cup p)],
      [source_hash |-> 2, decoded |-> AttachmentDecoded({PartRow(1, Some(1), Some(<<7>>))})]} :
        p \in {{}} \cup {{x} : x \in SecondParts}}

\* a backup with more jobs than workers: five part rows with a message, so
\* three workers of two, two and one job, and a part row with mid NULL; two
\* parts are the same file of the same message and one file is missing
ManyPartBackups ==
    {{[source_hash |-> 4,
       decoded |-> AttachmentDecoded({PartRow(1, Some(1), Some(<<7>>)),
                                      PartRow(2, Some(1), Some(<<7>>)),
                                      PartRow(3, Some(2), None),
                                      PartRow(4, Some(2), Some(<<8, 8>>)),
                                      PartRow(5, Some(2), Some(<<7>>)),
                                      PartRow(6, None, Some(<<7>>))})]}}

\* a decoded sms row with a body column
BodyRow(id, body) ==
    [id |-> id, thread_id |-> 1, body |-> body, date_recv |-> Some(1),
     date_sent |-> Some(2), type |-> Some(20), recipient_id |-> Some(1)]

\* backup 5 with a NULL body, a blank body and a text; a later backup 6
\* with the rows of backup 5 and one more text
BodyBackups ==
    {{[source_hash |-> 5,
       decoded |-> Decoded({BodyRow(1, None), BodyRow(2, Some(" ")), BodyRow(3, Some("a"))},
                           {}, {}, <<Reaction1>>)],
      [source_hash |-> 6,
       decoded |-> Decoded({BodyRow(1, None), BodyRow(2, Some(" ")), BodyRow(3, Some("a")),
                            BodyRow(4, Some("b")), BodyRow(5, Some(""))},
                           {}, {}, <<Reaction1>>)]}}

\* a decoded sms/mms row of a given type and recipient_id column; both are
\* read as Option<i64>
TypedRow(id, type, recipient_id) ==
    [id |-> id, thread_id |-> 1, body |-> Some("t"), date_recv |-> Some(1),
     date_sent |-> Some(2), type |-> type, recipient_id |-> recipient_id]

\* type NULL, an incoming base type, an outgoing base type, outgoing base
\* types under higher flag bits
SenderTypes == {None, Some(20), Some(23), Some(32 + 23), Some(64 + 2)}

\* a backup whose sms row and mms row have the same type and recipient_id
SenderBackups ==
    {{[source_hash |-> 3,
       decoded |-> Decoded({TypedRow(1, x[1], x[2])}, {TypedRow(1, x[1], x[2])}, {},
                           <<Reaction1>>)]} :
        x \in SenderTypes \X {None, Some(1)}}

InitImport ==
    /\ user_version = MigrationCount
    /\ schema = SchemaAt(MigrationCount)
    /\ imports = {}
    /\ recipients = {}
    /\ threads = {}
    /\ thread_members = {}
    /\ messages = {}
    /\ attachments = {}
    /\ reactions = {}
    /\ message_fts = <<>>
    /\ tags = {}
    /\ message_tags = {}
    /\ files = NoFiles
    /\ ElsewhereIdle
    /\ conn = ConnClosed
    /\ backups \in MessageBackups \cup AttachmentBackups \cup SenderBackups
                    \cup ManyPartBackups \cup BodyBackups
    /\ imp = ImpIdle
    /\ tx = None
    /\ workers = {}
    /\ chan = <<>>
    /\ ret = None
    /\ now = 1
    /\ pg = PgIdle
    /\ scrap = ScrapIdle

NextImport ==
    \/ \E b \in backups : ImportOpen(b)
    \/ ImportInsert
    \/ DecodeOk
    \/ DecodeUnsupported
    \/ DecodeFailed
    \/ StepRecipients
    \/ StepThreads
    \/ StepSms
    \/ StepMms
    \/ AttachStart
    \/ \E w \in workers : WorkerMissing(w)
    \/ \E w \in workers : WorkerEncrypt(w)
    \/ \E w \in workers : WorkerFound(w)
    \/ \E w \in workers : WorkerError(w)
    \/ WriterRecv
    \/ AttachFinish
    \/ StepReactions
    \/ StepActivity
    \/ StepFts
    \/ MapError
    \/ Commit
    \/ Finish

SpecImport == InitImport /\ [][NextImport]_vars

\* main.rs with_db, the first command of the host after start: state.db is
\* None, so open_archive runs on the host's own connection, and its UPDATE
\* of the running rows with it. import_backup_cmd runs the import under
\* spawn_blocking on another connection and does not take state.db. While
\* the import holds its write transaction the UPDATE waits for busy_timeout
\* and open_archive fails with the handle left None: the step is taken when
\* no write transaction is open
HostOpen ==
    /\ conn.pc = "closed"
    /\ tx = None
    /\ imports' = RecoverImports(imports)
    /\ conn' = [pc |-> "open"]
    /\ UNCHANGED <<schemavars, tablevars, tagvars, importvars, ret, now, clientvars,
                   mediavars, crypto, worker>>

NextImportHost ==
    \/ NextImport
    \/ HostOpen

SpecImportHost == InitImport /\ [][NextImportHost]_vars

----------------------------------------------------------------------------
(* Import pipeline: properties *)

\* message rows of a decoded database as (kind, row) pairs
DecodedMessages(d) ==
    {<<"sms", r>> : r \in d.sms} \cup {<<"mms", r>> : r \in d.mms}

\* an import of backup b succeeded earlier
Succeeded(b) ==
    \E r \in imports : r.source_hash = b.source_hash /\ r.status = "success"

\* the step in which import_backup returns a mapping error
ReturnsMappingError ==
    /\ ret = None
    /\ IsSome(ret')
    /\ Unwrap(ret').result = "mapping error"

\* C3: when a mapping step fails, after import_backup returned the error
\* the archive tables equal their contents before the import, and the row
\* of that import is failed with an error blob
C3_FailedMappingRollsBack ==
    [][ReturnsMappingError =>
         /\ Tables' = imp.before
         /\ \E r \in imports' : /\ r.id = imp.import_id
                                /\ r.status = "failed"
                                /\ IsSome(r.stats_json)]_vars

\* a mapping error returned at the commit, after every step wrote its rows
\* inside the transaction
C3_Witness ==
    /\ IsSome(ret)
    /\ Unwrap(ret).result = "mapping error"
    /\ Unwrap(ret).at = "commit"
    /\ \E r \in imports : r.id = Unwrap(ret).seq /\ r.status = "failed"
    /\ messages = {}

\* the step in which import_backup leaves the duplicate check and the INSERT
LeavesInsert == imp.pc = "opened" /\ imp'.pc # "opened"

\* C4: import_backup of a source with hash H is rejected as already loaded
\* exactly when a success row with source_hash H exists, and then no row is
\* added; in every other case, failed rows for H included, a running row
\* for H is inserted and the import proceeds
C4_RejectedOnlyWhenLoaded ==
    [][LeavesInsert =>
         IF Succeeded(imp.plan)
         THEN /\ IsSome(ret')
              /\ Unwrap(ret').result = "already loaded"
              /\ imports' = imports
         ELSE /\ imp'.pc = "decode"
              /\ \E r \in imports' \ imports : /\ r.id = imp.import_id
                                               /\ r.source_hash = imp.plan.source_hash
                                               /\ r.status = "running"]_vars

\* the step that commits the import in progress
Commits == imp.pc = "commit" /\ imp'.pc = "finish"

\* another backup file of the same decoded content was imported with success
SameContentImported ==
    \E b \in backups : /\ b.source_hash # imp.plan.source_hash
                       /\ b.decoded = imp.plan.decoded
                       /\ Succeeded(b)

\* C5: a second import of the same decoded input leaves the message,
\* attachment and reaction rows as they were after the first import, with
\* no duplicate dedupe_key and no duplicate attachment id
C5_SecondImportAddsNothing ==
    [][(Commits /\ SameContentImported) =>
         /\ messages' = imp.before.messages
         /\ attachments' = imp.before.attachments
         /\ reactions' = imp.before.reactions
         /\ \A m1, m2 \in messages' : m1.dedupe_key = m2.dedupe_key => m1 = m2
         /\ \A a1, a2 \in attachments' : a1.id = a2.id => a1 = a2]_vars

\* the second import of the same content has committed, over an archive
\* that holds messages, attachments and reactions
C5_Witness ==
    /\ imp.pc = "finish"
    /\ SameContentImported
    /\ messages # {}
    /\ attachments # {}
    /\ reactions # {}

\* backup a was imported with success and the import in progress holds all
\* its message rows and more
EarlierPart(a) ==
    /\ Succeeded(a)
    /\ DecodedMessages(a.decoded) \subseteq DecodedMessages(imp.plan.decoded)
    /\ DecodedMessages(a.decoded) # DecodedMessages(imp.plan.decoded)

\* archive rows and decoded rows of B that came in with B
KeptAndNew(a) ==
    /\ imp.before.messages \subseteq messages'
    /\ \A m \in messages' \ imp.before.messages :
          \E kr \in DecodedMessages(imp.plan.decoded) \ DecodedMessages(a.decoded) :
              m.id = MsgIdText(kr[1], kr[2].id)

\* C6 as stated: after import A and then import B, B holding A's message
\* rows and more, the archive has exactly one message row per (kind,
\* foreign id) of A union B; A's rows are unchanged, only new rows of B
\* are inserted
C6_OneRowPerForeignId ==
    [][\A a \in backups : (Commits /\ EarlierPart(a)) =>
         /\ \A kr \in DecodedMessages(imp.plan.decoded) :
               Cardinality({m \in messages' : m.id = MsgIdText(kr[1], kr[2].id)}) = 1
         /\ Cardinality(messages') = Cardinality(DecodedMessages(imp.plan.decoded))
         /\ KeptAndNew(a)]_vars

\* C6: after import A and then import B, B holding A's message rows and
\* more, the archive has exactly one message row per dedupe key of A union
\* B: one per (kind, foreign id) for every foreign id > 0, one per fallback
\* key for the rows of foreign id <= 0; A's rows are unchanged, only new
\* rows of B are inserted
C6_OneRowPerDedupeKey ==
    [][\A a \in backups : (Commits /\ EarlierPart(a)) =>
         LET rows == {MessageRowData(kr[1], kr[2]) : kr \in DecodedMessages(imp.plan.decoded)}
         IN  /\ \A row \in rows :
                   Cardinality({m \in messages' : m.dedupe_key = row.dedupe_key}) = 1
             /\ Cardinality(messages') = Cardinality({row.dedupe_key : row \in rows})
             /\ \A kr \in DecodedMessages(imp.plan.decoded) :
                   kr[2].id > 0 =>
                     Cardinality({m \in messages' : m.id = MsgIdText(kr[1], kr[2].id)}) = 1
             /\ KeptAndNew(a)]_vars

\* import B has committed after import A, inserted new rows, and holds a
\* row of foreign id <= 0 next to rows of foreign id > 0
C6_Witness ==
    /\ imp.pc = "finish"
    /\ \E a \in backups : /\ Succeeded(a)
                          /\ DecodedMessages(a.decoded) \subseteq
                                DecodedMessages(imp.plan.decoded)
                          /\ DecodedMessages(a.decoded) # DecodedMessages(imp.plan.decoded)
    /\ messages # imp.before.messages
    /\ \E r \in imp.plan.decoded.mms : r.id <= 0
    /\ \E r \in imp.plan.decoded.mms : r.id > 0

\* pairs of distinct part rows of a message each whose files exist and hold
\* the same plaintext
SamePlaintextPairs(d) ==
    {pq \in d.part \X d.part : /\ pq[1].id < pq[2].id
                               /\ IsSome(pq[1].mid) /\ IsSome(pq[2].mid)
                               /\ IsSome(pq[1].file) /\ pq[1].file = pq[2].file}

\* files under attachments/ that hold plain
FilesHolding(plain) ==
    Cardinality({b \in files.blobs : b.plain = plain})
        + Cardinality({t \in files.temps : t.plain = plain})

\* one file for the content of the pair and one attachment row per part row,
\* both of the content's sha256
OneFileTwoRows(pq) ==
    /\ FilesHolding(Unwrap(pq[1].file)) = 1
    /\ \E a1, a2 \in attachments :
          /\ a1 # a2
          /\ a1.message_id = MsgIdText("mms", Unwrap(pq[1].mid))
          /\ a2.message_id = MsgIdText("mms", Unwrap(pq[2].mid))
          /\ a1.sha256 = Sha256(Unwrap(pq[1].file))
          /\ a2.sha256 = Sha256(Unwrap(pq[1].file))

\* the import in progress has committed and no worker is running
ImportedAndQuiet == imp.pc = "finish" /\ workers = {}

C8_AttachmentBlobsValid ==
    \A a \in attachments :
        \E b \in files.blobs : /\ b.name = a.sha256
                               /\ IsSome(Decrypt(b, MasterKey))
                               /\ Sha256(Unwrap(Decrypt(b, MasterKey))) = a.sha256

\* KeyPurpose::info
KeyPurposeInfo(purpose) ==
    IF purpose = "Database" THEN "golden-thread-db-v1" ELSE "golden-thread-attachments-v1"

\* derive_key: HKDF-SHA256 of the master key, expanded with the info of the
\* purpose; the 32 bytes differ from the master key and between purposes
derive_key(master, purpose) ==
    IF master = MasterKey
    THEN IF KeyPurposeInfo(purpose) = "golden-thread-db-v1"
         THEN "hkdf(master_key, golden-thread-db-v1)"
         ELSE "hkdf(master_key, golden-thread-attachments-v1)"
    ELSE "hkdf(other_key)"

\* crypto.rs attachment_key
attachment_key(master) == derive_key(master, "Attachments")

\* C18: every blob the import pipeline writes under attachments/ is sealed
\* with the attachment-purpose key derive_key(master, Attachments), never
\* with the raw master key.
C18_SealedWithAttachmentKey ==
    \A b \in files.blobs : b.key = attachment_key(MasterKey) /\ b.key # MasterKey

\* attachment rows are committed while a worker of an earlier, failed import
\* still runs
C8_Witness ==
    /\ attachments # {}
    /\ imp.pc = "finish"
    /\ \E w \in workers : w.wid[1] < imp.seq
    /\ \E r \in imports : r.status = "failed"

----------------------------------------------------------------------------
(* Archive store: db.rs open_archive and apply_migrations, statement by    *)
(* statement. Every statement runs in autocommit: what it changed is       *)
(* durable when it returns.                                                *)

\* what opening the archive leaves alone
outside_open == <<tablevars, tagvars, importvars, now, clientvars, mediavars, crypto, worker>>

\* the for loop of apply_migrations at version v: the next pending
\* migration, or the recovery UPDATE of open_archive after the loop
AfterVersion(v) ==
    IF v < MigrationCount THEN [pc |-> "migrate", k |-> v + 1, stmt |-> 1]
    ELSE [pc |-> "recover"]

\* open_archive up to PRAGMA user_version
OpenArchive ==
    /\ conn.pc = "closed"
    /\ conn' = AfterVersion(user_version)
    /\ ret' = None
    /\ UNCHANGED <<schemavars, imports, outside_open>>

\* ALTER TABLE ADD COLUMN fails on a column that exists (duplicate column
\* name); CREATE ... IF NOT EXISTS and UPDATE do not fail
StatementFails(st) == st.op = "add_column" /\ st.obj \in schema

\* ALTER TABLE messages ADD COLUMN sort_ts INTEGER NOT NULL DEFAULT 0: every
\* row that is in the table has the default
AddSortTsColumn(table) ==
    {[rowid |-> m.rowid, id |-> m.id, thread_id |-> m.thread_id, sender_id |-> m.sender_id,
      sent_at |-> m.sent_at, received_at |-> m.received_at, sort_ts |-> 0,
      body |-> m.body, is_outgoing |-> m.is_outgoing, dedupe_key |-> m.dedupe_key] :
        m \in table}

\* migration 6 without its UPDATE
BackfillSortTs_off(table) == table

\* UPDATE messages SET sort_ts = COALESCE(sent_at, received_at, 0)
BackfillSortTs(table) == {[m EXCEPT !.sort_ts = CoalesceTs(m)] : m \in table}

\* what a statement of a migration does to the rows of messages
MessagesAfter(st, table) ==
    IF st = AddColumn("messages.sort_ts") THEN AddSortTsColumn(table)
    ELSE IF st = Update("messages.sort_ts") THEN BackfillSortTs(table)
    ELSE table

\* what a migration statement leaves alone
outside_migrate == <<recipients, threads, thread_members, attachments, reactions,
                     message_fts, tagvars, importvars, now, clientvars, mediavars, crypto, worker>>

\* the next statement of execute_batch(sql); an error ends open_archive
ExecStatement ==
    /\ conn.pc = "migrate"
    /\ LET st == MIGRATIONS[conn.k][conn.stmt]
       IN  IF StatementFails(st)
           THEN /\ conn' = ConnClosed
                /\ ret' = Some([call |-> "open_archive", result |-> "sqlite error"])
                /\ UNCHANGED <<schema, messages>>
           ELSE /\ schema' = IF st.op = "update" THEN schema ELSE schema \cup {st.obj}
                /\ messages' = MessagesAfter(st, messages)
                /\ conn' = IF conn.stmt < Len(MIGRATIONS[conn.k])
                           THEN [conn EXCEPT !.stmt = @ + 1]
                           ELSE [pc |-> "bump", k |-> conn.k]
                /\ UNCHANGED ret
    /\ UNCHANGED <<user_version, imports, outside_migrate>>

\* execute_batch("PRAGMA user_version = k")
BumpVersion ==
    /\ conn.pc = "bump"
    /\ user_version' = conn.k
    /\ conn' = AfterVersion(conn.k)
    /\ UNCHANGED <<schema, imports, ret, outside_open>>

\* the UPDATE of running import rows; open_archive returns Ok
Recover ==
    /\ conn.pc = "recover"
    /\ imports' = RecoverImports(imports)
    /\ conn' = [pc |-> "open"]
    /\ ret' = Some([call |-> "open_archive", result |-> "ok"])
    /\ UNCHANGED <<schemavars, outside_open>>

\* the process dies inside open_archive: the database file stays as it is
Crash ==
    /\ conn.pc \in {"migrate", "bump", "recover"}
    /\ conn' = ConnClosed
    /\ UNCHANGED <<schemavars, imports, ret, outside_open>>

\* the ArchiveDb is dropped
Close ==
    /\ conn.pc = "open"
    /\ conn' = ConnClosed
    /\ UNCHANGED <<schemavars, imports, ret, outside_open>>

\* import rows an earlier process left: interrupted, finished, failed
LeftImports ==
    {[id |-> 1, source_hash |-> 1, status |-> "running", stats_json |-> None],
     [id |-> 2, source_hash |-> 2, status |-> "success", stats_json |-> Some("stats")],
     [id |-> 3, source_hash |-> 3, status |-> "failed", stats_json |-> Some("error")]}

\* a new archive file, or one that an earlier version of the program left
\* at its user_version
InitOpen ==
    /\ user_version \in 0..MigrationCount
    /\ schema = SchemaAt(user_version)
    /\ imports \in IF user_version = 0 THEN {{}} ELSE SUBSET LeftImports
    /\ recipients = {}
    /\ threads = {}
    /\ thread_members = {}
    /\ messages = {}
    /\ attachments = {}
    /\ reactions = {}
    /\ message_fts = <<>>
    /\ tags = {}
    /\ message_tags = {}
    /\ files = NoFiles
    /\ ElsewhereIdle
    /\ conn = ConnClosed
    /\ backups = {}
    /\ imp = ImpIdle
    /\ tx = None
    /\ workers = {}
    /\ chan = <<>>
    /\ ret = None
    /\ now = 1
    /\ pg = PgIdle
    /\ scrap = ScrapIdle

NextOpen ==
    \/ OpenArchive
    \/ ExecStatement
    \/ BumpVersion
    \/ Recover
    \/ Crash
    \/ Close

SpecOpen == InitOpen /\ [][NextOpen]_vars

----------------------------------------------------------------------------
(* Thread media: list_thread_media and a client that pages with offsets    *)

\* the rows of attachments a JOIN messages m ON m.id = a.message_id that
\* pass the WHERE clauses
ThreadMediaRows(thread_id, from_ts, to_ts, size_bucket) ==
    {j \in {[a |-> a, m |-> m] : a \in attachments, m \in messages} :
        /\ j.m.id = j.a.message_id
        /\ j.m.thread_id = thread_id
        /\ IsSome(from_ts) => CoalesceTs(j.m) >= Unwrap(from_ts)
        /\ IsSome(to_ts) => CoalesceTs(j.m) <= Unwrap(to_ts)
        /\ IsSome(size_bucket) => j.a.size_bucket = size_bucket}

\* a.id under the BINARY collation: "att:<message_id>:<sha256>", the digest
\* standing as its input
AttIdText(id) == id[2] \o <<58>> \o id[3][2]

\* IFNULL(a.size_bytes, 0)
SizeKey(a) == UnwrapOr(a.size_bytes, 0)

\* x sorts strictly before y under the ORDER BY terms of the sort mode
OrderByBefore(sort, x, y) ==
    CASE sort = "size_asc" ->
           \/ SizeKey(x.a) < SizeKey(y.a)
           \/ (SizeKey(x.a) = SizeKey(y.a) /\ CoalesceTs(x.m) > CoalesceTs(y.m))
      [] sort = "size_desc" ->
           \/ SizeKey(x.a) > SizeKey(y.a)
           \/ (SizeKey(x.a) = SizeKey(y.a) /\ CoalesceTs(x.m) > CoalesceTs(y.m))
      [] sort = "date_asc" ->
           \/ CoalesceTs(x.m) < CoalesceTs(y.m)
           \/ (CoalesceTs(x.m) = CoalesceTs(y.m)
                 /\ TextLess(AttIdText(x.a.id), AttIdText(y.a.id)))
      [] OTHER ->
           \/ CoalesceTs(x.m) > CoalesceTs(y.m)
           \/ (CoalesceTs(x.m) = CoalesceTs(y.m)
                 /\ TextLess(AttIdText(x.a.id), AttIdText(y.a.id)))

\* the orders in which SQLite may return rows under the ORDER BY: rows that
\* are equal in every term come in any order
ResultOrders(rows, sort) ==
    {s \in [1..Cardinality(rows) -> rows] :
        /\ \A i, j \in DOMAIN s : i # j => s[i] # s[j]
        /\ \A i, j \in DOMAIN s : i < j => ~ OrderByBefore(sort, s[j], s[i])}

\* LIMIT limit OFFSET offset on an ordered result
LimitOffset(s, limit, offset) ==
    SubSeq(s, offset + 1, IF offset + limit < Len(s) THEN offset + limit ELSE Len(s))

\* the results list_thread_media may return
list_thread_media(thread_id, from_ts, to_ts, size_bucket, sort, limit, offset) ==
    {LimitOffset(s, limit, offset) :
        s \in ResultOrders(ThreadMediaRows(thread_id, from_ts, to_ts, size_bucket), sort)}

SortModes == {"date_desc", "date_asc", "size_asc", "size_desc"}

\* the client's first call, with offset 0
FirstMediaPage(sort, from_ts, to_ts, size_bucket, limit) ==
    /\ pg.phase = "idle"
    /\ \E page \in list_thread_media(Decimal(1), from_ts, to_ts, size_bucket, sort, limit, 0) :
           pg' = [phase |-> IF page = <<>> THEN "media_done" ELSE "media_paging",
                  sort |-> sort, from_ts |-> from_ts, to_ts |-> to_ts,
                  size_bucket |-> size_bucket, limit |-> limit, offset |-> Len(page),
                  acc |-> page]
    /\ UNCHANGED <<outside_query, threads, messages, tagvars, now, scrap>>

\* the client's next call, with the offset moved by the rows it has; it
\* stops on an empty page
NextMediaPage ==
    /\ pg.phase = "media_paging"
    /\ \E page \in list_thread_media(Decimal(1), pg.from_ts, pg.to_ts, pg.size_bucket,
                                      pg.sort, pg.limit, pg.offset) :
           pg' = [pg EXCEPT !.phase = IF page = <<>> THEN "media_done" ELSE "media_paging",
                            !.offset = @ + Len(page),
                            !.acc = @ \o page]
    /\ UNCHANGED <<outside_query, threads, messages, tagvars, now, scrap>>

\* a decoded mms row of a thread with its date_sent
MediaDecodedRow(n, thread_id, date_sent) ==
    [id |-> n, thread_id |-> thread_id, body |-> None, date_recv |-> None,
     date_sent |-> date_sent, type |-> Some(20), recipient_id |-> Some(1)]

\* the part of message mid with its plaintext and size
MediaJob(mid, plain, data_size) == [mid |-> mid, file |-> Some(plain), data_size |-> data_size]

\* an imported archive: messages 1, 2 and 3 of thread 1, message 4 of
\* thread 2, each with one attachment, message 1 with one or two
InitThreadMedia ==
    /\ user_version = MigrationCount
    /\ schema = SchemaAt(MigrationCount)
    /\ imports = {}
    /\ recipients = {}
    /\ thread_members = {}
    /\ reactions = {}
    /\ message_fts = <<>>
    /\ files = NoFiles
    /\ conn = ConnClosed
    /\ backups = {}
    /\ imp = ImpIdle
    /\ tx = None
    /\ workers = {}
    /\ chan = <<>>
    /\ ret = None
    /\ ElsewhereIdle
    /\ threads = {}
    /\ \E d3 \in {Some(5), Some(7)} :
           messages = insert_message_batch({},
                          MapRows("mms", <<MediaDecodedRow(1, 1, Some(5)),
                                           MediaDecodedRow(2, 1, Some(5)),
                                           MediaDecodedRow(3, 1, d3),
                                           MediaDecodedRow(4, 2, Some(5))>>), 0).table
    /\ \E s2 \in {Some(9), Some(4)}, s3 \in {Some(9), Some(2000000)},
          second \in {<<>>, <<MediaJob(1, <<8>>, Some(9))>>} :
           attachments = insert_attachment_batch({},
                             <<AttachmentRowData(MediaJob(1, <<7>>, Some(9))),
                               AttachmentRowData(MediaJob(2, <<7>>, s2)),
                               AttachmentRowData(MediaJob(3, <<8>>, s3)),
                               AttachmentRowData(MediaJob(4, <<7>>, Some(9)))>>
                             \o [i \in DOMAIN second |-> AttachmentRowData(second[i])])
    /\ tags = {}
    /\ message_tags = {}
    /\ now = 1
    /\ pg = PgIdle
    /\ scrap = ScrapIdle

NextThreadMedia ==
    \/ \E sort \in SortModes, from_ts \in {None, Some(5)}, to_ts \in {None, Some(5)},
          size_bucket \in {None, Some(0)}, limit \in 1..MaxLimit :
           FirstMediaPage(sort, from_ts, to_ts, size_bucket, limit)
    \/ NextMediaPage

SpecThreadMedia == InitThreadMedia /\ [][NextThreadMedia]_vars

----------------------------------------------------------------------------
(* Message rows and their sort_ts: rows an archive of schema version 5     *)
(* holds, rows of insert_message_batch, rows of a plain INSERT             *)

\* a row of messages before migration 6: the table has no sort_ts column
LegacyRow(n, sent_at, received_at) ==
    [rowid |-> n, id |-> MsgIdText("mms", n), thread_id |-> Decimal(1), sender_id |-> None,
     sent_at |-> sent_at, received_at |-> received_at, body |-> Some("a"),
     is_outgoing |-> 1, dedupe_key |-> <<"id", MsgIdText("mms", n)>>]

LegacyRows == {LegacyRow(1, Some(5), Some(6)), LegacyRow(2, None, Some(6)),
               LegacyRow(3, None, None)}

\* the trigger of migration 7: AFTER INSERT WHEN NEW.sort_ts IS NULL OR
\* NEW.sort_ts = 0, UPDATE messages SET sort_ts = COALESCE(NEW.sent_at,
\* NEW.received_at, 0) WHERE id = NEW.id
trg_messages_sort_ts(row) ==
    IF "trg_messages_sort_ts" \in schema /\ row.sort_ts = 0
    THEN [row EXCEPT !.sort_ts = CoalesceTs(row)]
    ELSE row

\* the dates of the decoded rows and of the plain rows
RowDates == {None, Some(0), Some(3), Some(4)}

\* decoded sms rows with every pair of dates
DatedRows ==
    {[id |-> n, thread_id |-> 1, body |-> Some("s"), date_recv |-> d[1],
      date_sent |-> d[2], type |-> Some(23), recipient_id |-> Some(1)] :
        n \in {1}, d \in RowDates \X RowDates}

\* insert_message_batch on an open archive with the row map_signal_db makes
\* of a decoded sms row
InsertBatch(r) ==
    /\ conn.pc = "open"
    /\ messages' = insert_message_batch(messages, <<MessageRowData("sms", r)>>, 0).table
    /\ UNCHANGED <<schemavars, imports, recipients, threads, thread_members, attachments,
                   reactions, message_fts, tagvars, importvars, conn, ret, now, clientvars,
                   mediavars, crypto, worker>>

\* INSERT INTO messages (id, thread_id, sender_id, sent_at, received_at, ...)
\* that names no sort_ts (supplied = None, the column DEFAULT 0 applies) or
\* gives 0; the statement fails on an id that is in the table
InsertMessage(n, sent_at, received_at, supplied) ==
    /\ conn.pc = "open"
    /\ LET id  == MsgIdText("mms", n)
           row == [rowid |-> NextRowid(messages), id |-> id, thread_id |-> Decimal(1),
                   sender_id |-> Some(Decimal(1)), sent_at |-> sent_at,
                   received_at |-> received_at, sort_ts |-> UnwrapOr(supplied, 0),
                   body |-> Some("p"), is_outgoing |-> 0, dedupe_key |-> <<"id", id>>]
       IN  messages' = IF MessageConflict(messages, row) THEN messages
                       ELSE messages \cup {trg_messages_sort_ts(row)}
    /\ UNCHANGED <<schemavars, imports, recipients, threads, thread_members, attachments,
                   reactions, message_fts, tagvars, importvars, conn, ret, now, clientvars,
                   mediavars, crypto, worker>>

\* a new archive file, or one that the program left at user_version 5 with
\* message rows
InitRows ==
    /\ user_version \in {0, 5}
    /\ schema = SchemaAt(user_version)
    /\ imports = {}
    /\ recipients = {}
    /\ threads = {}
    /\ thread_members = {}
    /\ messages \in IF user_version = 0 THEN {{}} ELSE SUBSET LegacyRows
    /\ attachments = {}
    /\ reactions = {}
    /\ message_fts = <<>>
    /\ tags = {}
    /\ message_tags = {}
    /\ files = NoFiles
    /\ ElsewhereIdle
    /\ conn = ConnClosed
    /\ backups = {}
    /\ imp = ImpIdle
    /\ tx = None
    /\ workers = {}
    /\ chan = <<>>
    /\ ret = None
    /\ now = 1
    /\ pg = PgIdle
    /\ scrap = ScrapIdle

NextRows ==
    \/ OpenArchive
    \/ ExecStatement
    \/ BumpVersion
    \/ Recover
    \/ Crash
    \/ Close
    \/ \E r \in DatedRows : InsertBatch(r)
    \/ \E d \in RowDates \X RowDates, supplied \in {None, Some(0)} :
           InsertMessage(7, d[1], d[2], supplied)

SpecRows == InitRows /\ [][NextRows]_vars

\* C9: when open_archive returns Ok no import row is running; the rows that
\* were running are failed with a non-null error blob, the success and
\* failed rows are as they were
C9_RunningRowsRecovered ==
    [][(conn.pc = "recover" /\ conn'.pc = "open") =>
         /\ \A r \in imports' : r.status # "running"
         /\ Cardinality(imports') = Cardinality(imports)
         /\ \A r \in imports :
               IF r.status = "running"
               THEN \E q \in imports' : /\ q.id = r.id
                                        /\ q.source_hash = r.source_hash
                                        /\ q.status = "failed"
                                        /\ IsSome(q.stats_json)
               ELSE r \in imports']_vars

\* open_archive returned over an interrupted import and a finished one
C9_Witness ==
    /\ conn.pc = "open"
    /\ \E r \in imports : r.status = "failed" /\ r.stats_json = Some("import interrupted")
    /\ \E r \in imports : r.status = "success"

\* no schema change of a migration is in the database file while
\* user_version is below that migration
MigrationsAtomic ==
    \A k \in 1..MigrationCount : MigrationObjects(k) \cap schema # {} => user_version >= k

\* open_archive does not fail in apply_migrations
OpenSucceeds ==
    ~ (IsSome(ret) /\ Unwrap(ret).call = "open_archive" /\ Unwrap(ret).result = "sqlite error")

\* C10: every migration is applied atomically with its user_version bump,
\* also across a crash inside apply_migrations, so that a reopen succeeds
C10_MigrationAtomicWithVersion == MigrationsAtomic /\ OpenSucceeds

----------------------------------------------------------------------------
(* Media subsystem: MediaCache (media_ops.rs, the same code in             *)
(* media_worker.rs). A cache key is the string <sha256>:<ext>, a sequence  *)
(* of byte codes; entries maps a key to its path and last_access, an       *)
(* Instant in seconds.                                                     *)

\* format!("{}:{}", sha256, ext)
CacheKey(sha256, ext) == sha256 \o <<58>> \o ext

\* key.split_once(':'): the part before the first ':', or None
RECURSIVE SplitOnceHead(_)
SplitOnceHead(key) ==
    IF key = <<>> THEN None
    ELSE IF Head(key) = 58 THEN Some(<<>>)
    ELSE LET rest == SplitOnceHead(Tail(key))
         IN  IF IsSome(rest) THEN Some(<<Head(key)>> \o Unwrap(rest)) ELSE None

\* record_eviction that pushes nothing
record_eviction_off(c, key) == c

\* MediaCache::record_eviction
record_eviction(c, key) ==
    LET sha == SplitOnceHead(key)
    IN  [c EXCEPT !.evicted = Append(@, IF IsSome(sha) THEN Unwrap(sha) ELSE key)]

\* entries.remove(key)
RemoveEntry(entries, key) == [k \in DOMAIN entries \ {key} |-> entries[k]]

\* entries.insert(key, entry)
InsertEntry(entries, key, entry) ==
    [k \in DOMAIN entries \cup {key} |-> IF k = key THEN entry ELSE entries[k]]

\* MediaCache::evict_expired at Instant t: every expired entry is removed
\* and its sha pushed. The for loop takes the keys in the order of the
\* HashMap; the model takes them in one order.
RECURSIVE evict_expired(_, _)
evict_expired(c, t) ==
    LET expired == {k \in DOMAIN c.entries : t - c.entries[k].last_access > MEDIA_TTL}
    IN  IF expired = {} THEN c
        ELSE LET key == CHOOSE k \in expired : TRUE
             IN  evict_expired(record_eviction([c EXCEPT !.entries = RemoveEntry(@, key)], key), t)

\* MediaCache::evict_lru: while over MAX_MEDIA_FILES, min_by_key takes an
\* entry of least last_access, the first one in the order of the HashMap
RECURSIVE evict_lru_loop(_)
evict_lru_loop(c) ==
    IF Cardinality(DOMAIN c.entries) > MAX_MEDIA_FILES
    THEN LET oldest == {k \in DOMAIN c.entries :
                          \A k2 \in DOMAIN c.entries :
                              c.entries[k].last_access <= c.entries[k2].last_access}
         IN  UNION {evict_lru_loop(
                        record_eviction([c EXCEPT !.entries = RemoveEntry(@, key)], key)) :
                    key \in oldest}
    ELSE {c}

\* MediaCache::evict_lru taking max_by_key: over MAX_MEDIA_FILES, an entry
\* of greatest last_access goes
evict_lru_newest(c) ==
    IF Cardinality(DOMAIN c.entries) > MAX_MEDIA_FILES
    THEN {record_eviction([c EXCEPT !.entries = RemoveEntry(@, key)], key) :
            key \in {k \in DOMAIN c.entries :
                        \A k2 \in DOMAIN c.entries :
                            c.entries[k].last_access >= c.entries[k2].last_access}}
    ELSE {c}

\* MediaCache::evict_lru that leaves the entries as they are
evict_lru_off(c) == {c}

evict_lru(c) == evict_lru_loop(c)

\* the files the entries of c point to and those of d do not: the
\* remove_file calls between the two caches
Removed(c, d) ==
    {c.entries[k].path : k \in DOMAIN c.entries} \ {d.entries[k].path : k \in DOMAIN d.entries}

\* the path a caller of insert gives the preview of a key
PreviewPath(key) == <<"previews", key>>

\* remove_file left out
RemoveFiles_off(dir, paths) == dir

\* remove_file on each of paths; a missing file is no error (let _ =)
RemoveFiles(dir, paths) == [p \in DOMAIN dir \ paths |-> dir[p]]

\* the file at path is created or replaced
WriteFile(dir, path, content) ==
    [p \in DOMAIN dir \cup {path} |-> IF p = path THEN content ELSE dir[p]]

\* MediaCache::get
CacheGet(key) ==
    /\ LET c == evict_expired(cache, now)
       IN  /\ IF key \in DOMAIN c.entries
              THEN /\ cache' = [c EXCEPT !.entries[key].last_access = now]
                   /\ ret' = Some([call |-> "get", result |-> Some(c.entries[key].path)])
              ELSE /\ cache' = c
                   /\ ret' = Some([call |-> "get", result |-> None])
           /\ media' = [media EXCEPT !.previews = RemoveFiles(@, Removed(cache, c))]
    /\ UNCHANGED <<schemavars, imports, tablevars, tagvars, importvars, conn, now, clientvars,
                   crypto, worker>>

\* MediaCache::insert
CacheInsert(key, path) ==
    /\ LET put == [cache EXCEPT
                      !.entries = InsertEntry(@, key, [path |-> path, last_access |-> now])]
       IN  \E d \in evict_lru(evict_expired(put, now)) :
               /\ cache' = d
               /\ media' = [media EXCEPT !.previews = RemoveFiles(@, Removed(put, d)),
                                         !.inserted = @ \cup {key}]
    /\ ret' = Some([call |-> "insert"])
    /\ UNCHANGED <<schemavars, imports, tablevars, tagvars, importvars, conn, now, clientvars,
                   crypto, worker>>

\* MediaCache::clear
CacheClear ==
    /\ cache' = MediaCacheNew
    /\ media' = [media EXCEPT !.previews = RemoveFiles(@, Removed(cache, MediaCacheNew))]
    /\ ret' = Some([call |-> "clear"])
    /\ UNCHANGED <<schemavars, imports, tablevars, tagvars, importvars, conn, now, clientvars,
                   crypto, worker>>

\* MediaCache::drain_evictions
CacheDrainEvictions ==
    /\ cache' = [cache EXCEPT !.evicted = <<>>]
    /\ ret' = Some([call |-> "drain_evictions", result |-> cache.evicted])
    /\ UNCHANGED <<schemavars, imports, tablevars, tagvars, importvars, conn, now, clientvars,
                   media, crypto, worker>>

\* the keys of the previews that fill the cache to one below its capacity
FillerKey(i) == CacheKey(Decimal(i), <<98, 105, 110>>)

FillerKeys == {FillerKey(i) : i \in 1..MAX_MEDIA_FILES}

\* the keys the media operations are called with: two previews of one
\* attachment and a key without ':'
CacheKeys ==
    {CacheKey(<<97>>, <<106, 112, 103>>), CacheKey(<<97>>, <<112, 110, 103>>), <<107, 48>>}

\* the Instants the operations are called at: up to MaxCacheTicks seconds
\* after the cache was filled, and one MEDIA_TTL later
CacheInstants ==
    {MAX_MEDIA_FILES + i + j : i \in 0..MaxCacheTicks, j \in {0, MEDIA_TTL}}

\* Instant::now() moves on by a second or by MEDIA_TTL
CacheTick ==
    /\ \E d \in {1, MEDIA_TTL} :
           /\ now + d \in CacheInstants
           /\ now' = now + d
    /\ UNCHANGED <<schemavars, imports, tablevars, tagvars, importvars, conn, ret, clientvars,
                   mediavars, crypto, worker>>

\* a full cache: the filler previews were inserted one per second
InitCache ==
    /\ NoArchive
    /\ cache = [entries |-> [k \in FillerKeys |->
                                [path |-> PreviewPath(k),
                                 last_access |-> CHOOSE i \in 1..MAX_MEDIA_FILES :
                                                     k = FillerKey(i)]],
                evicted |-> <<>>]
    /\ media = [MediaIdle EXCEPT
                    !.previews = [p \in {PreviewPath(k) : k \in FillerKeys} |-> <<>>],
                    !.inserted = FillerKeys]
    /\ crypto = CryptoIdle
    /\ worker = WorkerIdle
    /\ now = MAX_MEDIA_FILES

NextCache ==
    \/ CacheTick
    \/ \E key \in CacheKeys : CacheGet(key)
    \/ \E key \in CacheKeys : CacheInsert(key, PreviewPath(key))
    \/ CacheClear
    \/ CacheDrainEvictions

SpecCache == InitCache /\ [][NextCache]_vars

\* the keys of the previews looked up and inserted beside a full cache: the
\* oldest filler and two new previews
LruKeys ==
    {FillerKey(1), CacheKey(<<97>>, <<106, 112, 103>>), CacheKey(<<97>>, <<112, 110, 103>>)}

\* lookups and inserts on a full cache, nothing cleared or drained
NextLru ==
    \/ CacheTick
    \/ \E key \in LruKeys : CacheGet(key)
    \/ \E key \in LruKeys : CacheInsert(key, PreviewPath(key))

SpecLru == InitCache /\ [][NextLru]_vars

----------------------------------------------------------------------------
(* Media subsystem: decrypt_to_preview (media_ops.rs; handle_media of      *)
(* media_worker.rs is the same code). Each request is a thread; the cache  *)
(* is behind a Mutex, so get and insert are steps of their own. A file of  *)
(* previews/ is its content, the plaintext bytes written so far.           *)

\* mime.and_then(mime_extension).unwrap_or("bin")
PreviewExt(mime) ==
    IF mime = Some("image/jpeg") THEN <<106, 112, 103>>
    ELSE IF mime = Some("image/png") THEN <<112, 110, 103>>
    ELSE <<98, 105, 110>>

\* state.media_dir.join(format!("{}.{}", sha256, ext))
preview_path(sha256, ext) == <<"previews", sha256 \o <<46>> \o ext>>

\* the container attachments/<sha256>, if the file exists
AttachmentAt(sha256) ==
    IF \E b \in files.blobs : b.name = sha256
    THEN Some(CHOOSE b \in files.blobs : b.name = sha256)
    ELSE None

\* the request returns
PreviewReturn(m, r, result) == [m EXCEPT !.req[r].pc = "done", !.req[r].result = result]

archive_and_crypto == <<schemavars, imports, tablevars, tagvars, importvars, conn, ret,
                        clientvars, crypto, worker>>

\* the file-system calls the requests have made so far, each with whether
\* the caller held the guard of state.cache.lock() when it made the call
LogFs(m, ops, locked) == [m EXCEPT !.fsops = @ \cup {[op |-> op, locked |-> locked] : op \in ops}]

\* the remove_file calls of an eviction pass that removed the entries
\* between c and d
RemoveCalls(c, d) == IF DOMAIN c.entries \subseteq DOMAIN d.entries THEN {} ELSE {"remove_file"}

\* decrypt_to_preview_inner up to the cache lookup: a hit returns the path
PreviewGet(r, sha256, mime) ==
    /\ media.req[r].pc = "idle"
    /\ LET key == CacheKey(sha256, PreviewExt(mime))
           c == evict_expired(cache, now)
           m == [media EXCEPT !.previews = RemoveFiles(@, Removed(cache, c)),
                              !.req[r] = [pc |-> "exists", sha256 |-> sha256,
                                          ext |-> PreviewExt(mime), key |-> key,
                                          missed |-> key \notin DOMAIN c.entries,
                                          result |-> None]]
           logged == LogFs(m, RemoveCalls(cache, c), TRUE)
       IN  IF key \in DOMAIN c.entries
           THEN /\ cache' = [c EXCEPT !.entries[key].last_access = now]
                /\ media' = PreviewReturn(logged, r,
                                          Some([ok |-> TRUE, path |-> c.entries[key].path]))
           ELSE /\ cache' = c
                /\ media' = logged
    /\ UNCHANGED <<archive_and_crypto, now>>

\* attachment_path.exists(), encrypted_plaintext_len and the new temp file
PreviewOpen(r) ==
    /\ media.req[r].pc = "exists"
    /\ media' = IF IsSome(AttachmentAt(media.req[r].sha256))
                THEN LogFs([media EXCEPT !.req[r].pc = "decrypt",
                                         !.temps = WriteFile(@, r, <<>>)],
                           {"exists", "create_temp"}, FALSE)
                ELSE LogFs(PreviewReturn(media, r,
                                         Some([ok |-> FALSE, error |-> "attachment missing"])),
                           {"exists"}, FALSE)
    /\ UNCHANGED <<archive_and_crypto, now, cache>>

\* decrypt_stream (decrypt_file_parallel for a large file) into the temp
\* file: one more chunk is written, or the stream is at its end; a
\* container that does not open under state.key is an error, and the temp
\* file is deleted when it is dropped
PreviewDecrypt(r) ==
    /\ media.req[r].pc = "decrypt"
    /\ LET plain == Decrypt(Unwrap(AttachmentAt(media.req[r].sha256)), MasterKey)
           written == Len(media.temps[r])
       IN  media' =
             IF ~ IsSome(plain)
             THEN LogFs([PreviewReturn(media, r, Some([ok |-> FALSE, error |-> "crypto"]))
                            EXCEPT !.temps = RemoveFiles(@, {r}), !.unlinked = @ \ {r}],
                        {"read", "remove_temp"}, FALSE)
             ELSE IF written < Len(Unwrap(plain))
             THEN LogFs([media EXCEPT !.temps[r] = Append(@, Unwrap(plain)[written + 1])],
                        {"read", "write"}, FALSE)
             ELSE LogFs([media EXCEPT !.req[r].pc = "persist"], {"read"}, FALSE)
    /\ UNCHANGED <<archive_and_crypto, now, cache>>

\* AlreadyExists from temp.persist is an error of the request
KeepOnAlreadyExists_fails(m, r) ==
    [PreviewReturn(m, r, Some([ok |-> FALSE, error |-> "AlreadyExists"]))
        EXCEPT !.temps = RemoveFiles(@, {r})]

\* the arm Err(e) if e.error.kind() == AlreadyExists => {}: the temp file is
\* dropped and the request goes on
KeepOnAlreadyExists(m, r) == [m EXCEPT !.temps = RemoveFiles(@, {r}), !.req[r].pc = "insert"]

\* temp.persist(&preview_path): the rename puts the temp file in the place
\* of preview_path; where the rename does not replace a file that is there
\* it fails with AlreadyExists. A temp file whose path was removed with the
\* directory cannot be renamed: the arm Err(e) => return Err(e.to_string())
PreviewPersist(r) ==
    /\ media.req[r].pc = "persist"
    /\ LET path == preview_path(media.req[r].sha256, media.req[r].ext)
       IN  \/ /\ r \notin media.unlinked
              /\ media' = LogFs([media EXCEPT
                                      !.previews = WriteFile(@, path, media.temps[r]),
                                      !.temps = RemoveFiles(@, {r}),
                                      !.req[r].pc = "insert"],
                                 {"rename"}, FALSE)
           \/ /\ r \notin media.unlinked
              /\ path \in DOMAIN media.previews
              /\ media' = LogFs(KeepOnAlreadyExists(media, r), {"rename", "remove_temp"}, FALSE)
           \/ /\ r \in media.unlinked
              /\ media' = LogFs([PreviewReturn(media, r, Some([ok |-> FALSE, error |-> "NotFound"]))
                                     EXCEPT !.temps = RemoveFiles(@, {r}),
                                            !.unlinked = @ \ {r}],
                                 {"rename"}, FALSE)
    /\ UNCHANGED <<archive_and_crypto, now, cache>>

\* cache.insert(cache_key, preview_path) and Ok(preview_path)
PreviewInsert(r) ==
    /\ media.req[r].pc = "insert"
    /\ LET path == preview_path(media.req[r].sha256, media.req[r].ext)
           put == [cache EXCEPT !.entries = InsertEntry(@, media.req[r].key,
                                                 [path |-> path, last_access |-> now])]
       IN  \E d \in evict_lru(evict_expired(put, now)) :
               /\ cache' = d
               /\ media' = LogFs([PreviewReturn(media, r, Some([ok |-> TRUE, path |-> path]))
                                     EXCEPT !.previews = RemoveFiles(@, Removed(put, d)),
                                            !.inserted = @ \cup {media.req[r].key}],
                                  RemoveCalls(put, d), TRUE)
    /\ UNCHANGED <<archive_and_crypto, now>>

\* the two requests
Requests == {1, 2}

\* the hex digest the requests name
ShaA == <<97>>

\* the plaintexts of the attachment: up to MaxPreviewChunks chunks
PreviewPlains == {[i \in 1..n |-> i] : n \in 0..MaxPreviewChunks}

\* attachments/ holds the container of one plaintext under the master key or
\* under another key, or no file; the cache holds one old entry
InitPreview ==
    /\ NoArchiveFiles
    /\ \E blobs \in {{}} \cup {{[name |-> ShaA, plain |-> plain, key |-> key]} :
                                  plain \in PreviewPlains, key \in {MasterKey, "other_key"}} :
           files = [blobs |-> blobs, temps |-> {}]
    /\ cache = [entries |-> [k \in {FillerKey(1)} |->
                                [path |-> PreviewPath(k), last_access |-> 1]],
                evicted |-> <<>>]
    /\ media = [MediaIdle EXCEPT
                    !.previews = [p \in {PreviewPath(FillerKey(1))} |-> <<>>],
                    !.inserted = {FillerKey(1)},
                    !.req = [r \in Requests |-> [pc |-> "idle"]]]
    /\ crypto = CryptoIdle
    /\ worker = WorkerIdle
    /\ now = MAX_MEDIA_FILES

NextPreview ==
    \/ CacheTick
    \/ \E r \in Requests, mime \in {Some("image/jpeg"), None} : PreviewGet(r, ShaA, mime)
    \/ \E r \in Requests : \/ PreviewOpen(r)
                            \/ PreviewDecrypt(r)
                            \/ PreviewPersist(r)
                            \/ PreviewInsert(r)

SpecPreview == InitPreview /\ [][NextPreview]_vars

\* main.rs clear_preview_cache, the first statement of clear_media_cache_cmd
\* (and of reset_archive_cmd, as remove_dir_all(previews_dir)): the host
\* process removes previews/ and everything under it, the preview files and
\* the paths of the temp files that requests hold open, and leaves the
\* MediaCache of the worker alone; the clear_cache request is sent after it
clear_preview_cache ==
    /\ media' = [media EXCEPT !.previews = <<>>, !.unlinked = DOMAIN media.temps]
    /\ UNCHANGED <<archive_and_crypto, now, cache>>

\* preview requests beside clear_media_cache_cmd: the host clears the
\* directory, the cache is cleared by the clear_cache request
NextPreviewClear ==
    \/ NextPreview
    \/ clear_preview_cache
    \/ CacheClear

SpecPreviewClear == InitPreview /\ [][NextPreviewClear]_vars

\* both requests ran for one key, both missed the cache and the attachment
\* opens under the key of the media state
BothMissed ==
    /\ \A r \in Requests : media.req[r].pc = "done" /\ media.req[r].missed
    /\ media.req[1].key = media.req[2].key
    /\ IsSome(AttachmentAt(ShaA))
    /\ IsSome(Decrypt(Unwrap(AttachmentAt(ShaA)), MasterKey))

\* C13: two concurrent preview requests for one cache key that both miss the
\* cache both return Ok with the same preview path; afterwards the cache has
\* the entry of that key, and its preview file holds the whole plaintext.
C13_ConcurrentMisses ==
    BothMissed =>
        LET key == media.req[1].key
            path == preview_path(media.req[1].sha256, media.req[1].ext)
        IN  /\ \A r \in Requests : media.req[r].result = Some([ok |-> TRUE, path |-> path])
            /\ key \in DOMAIN cache.entries
            /\ cache.entries[key].path = path
            /\ path \in DOMAIN media.previews
            /\ media.previews[path] = Unwrap(Decrypt(Unwrap(AttachmentAt(ShaA)), MasterKey))
            /\ DOMAIN media.temps = {}

\* both requests missed and both wrote two chunks
C13_Witness ==
    /\ BothMissed
    /\ Len(Unwrap(AttachmentAt(ShaA)).plain) >= 2
    /\ \A r \in Requests : media.req[r].result # None /\ Unwrap(media.req[r].result).ok

\* C29: no file-system call is made while the media cache lock is held:
\* decryption, temp file creation, rename and preview file deletion all
\* happen with the lock released.
C29_NoIoUnderLock == \A op \in media.fsops : ~ op.locked

----------------------------------------------------------------------------
(* Attachment container (crypto.rs): header MAGIC, VERSION, chunk size as  *)
(* u32 little endian, base nonce; then the chunks, each the AES-256-GCM    *)
(* ciphertext of up to chunk_size bytes followed by its tag. A byte of a   *)
(* file is a tuple: <<"b", v>> is the plain byte v; <<"ct", key, nonce, i, *)
(* v>> is the i-th ciphertext byte of a chunk sealed under key and nonce   *)
(* whose plaintext byte is v; <<"tag", key, nonce, pt, j>> is the j-th     *)
(* byte of the tag of the chunk with plaintext pt.                         *)

Byte(v) == <<"b", v>>

Bytes(vs) == [i \in 1..Len(vs) |-> Byte(vs[i])]

\* u32::to_le_bytes of (n as u32): the low four bytes of n
to_le_bytes(n) ==
    <<n % 256, (n \div 256) % 256, (n \div 65536) % 256, (n \div 16777216) % 256>>

\* u32::from_le_bytes
from_le_bytes(b) == b[1] + 256 * b[2] + 65536 * b[3] + 16777216 * b[4]

\* nonce_for_chunk: bytes 4.. of the base nonce are the counter, big endian
nonce_for_chunk(base, counter) == <<SubSeq(base, 1, 4), counter>>

\* cipher.encrypt(nonce, pt): ciphertext and tag
Seal(key, nonce, pt) ==
    [i \in 1..(Len(pt) + TAG_LEN) |->
        IF i <= Len(pt) THEN <<"ct", key, nonce, i, pt[i][2]>>
        ELSE <<"tag", key, nonce, pt, i - Len(pt)>>]

\* cipher.decrypt(nonce, ct): the plaintext if ct is a ciphertext under key
\* and nonce with its own tag, else None
Open(key, nonce, ct) ==
    IF Len(ct) < TAG_LEN THEN None
    ELSE LET n == Len(ct) - TAG_LEN
             body_ok == \A i \in 1..n :
                           /\ ct[i][1] = "ct"
                           /\ ct[i][2] = key
                           /\ ct[i][3] = nonce
                           /\ ct[i][4] = i
             pt == [i \in 1..n |-> Byte(ct[i][5])]
         IN  IF /\ body_ok
                /\ \A j \in 1..TAG_LEN :
                      /\ ct[n + j][1] = "tag"
                      /\ ct[n + j][2] = key
                      /\ ct[n + j][3] = nonce
                      /\ ct[n + j][4] = pt
                      /\ ct[n + j][5] = j
             THEN Some(pt)
             ELSE None

\* write_header
write_header(base_nonce, chunk_size) ==
    Bytes(MAGIC) \o <<Byte(VERSION)>> \o Bytes(to_le_bytes(chunk_size)) \o base_nonce

\* read_header on the bytes of a file: read_exact fails on a short file
read_header(file) ==
    IF Len(file) < 4 THEN [ok |-> FALSE, error |-> "failed to fill whole buffer"]
    ELSE IF SubSeq(file, 1, 4) # Bytes(MAGIC)
    THEN [ok |-> FALSE, error |-> "invalid attachment header"]
    ELSE IF Len(file) < 5 THEN [ok |-> FALSE, error |-> "failed to fill whole buffer"]
    ELSE IF file[5] # Byte(VERSION)
    THEN [ok |-> FALSE, error |-> "unsupported attachment version"]
    ELSE IF Len(file) < 9 THEN [ok |-> FALSE, error |-> "failed to fill whole buffer"]
    ELSE LET chunk_size == from_le_bytes([i \in 1..4 |-> file[5 + i][2]])
         IN  IF chunk_size = 0 \/ chunk_size > MAX_CHUNK_SIZE
             THEN [ok |-> FALSE, error |-> "invalid chunk size"]
             ELSE IF Len(file) < 21
             THEN [ok |-> FALSE, error |-> "failed to fill whole buffer"]
             ELSE [ok |-> TRUE, chunk_size |-> chunk_size, nonce |-> SubSeq(file, 10, 21)]

\* the loop of decrypt_stream from offset pos (bytes read so far): the
\* inner while fills buf up to the end of the file
RECURSIVE decrypt_chunks(_, _, _, _, _, _, _)
decrypt_chunks(file, pos, key, chunk_size, base_nonce, counter, out) ==
    LET ct_chunk_size == chunk_size + TAG_LEN
        read == IF Len(file) - pos < ct_chunk_size THEN Len(file) - pos ELSE ct_chunk_size
    IN  IF read = 0 THEN [ok |-> TRUE, out |-> out, total |-> Len(out)]
        ELSE LET pt == Open(key, nonce_for_chunk(base_nonce, counter),
                            SubSeq(file, pos + 1, pos + read))
             IN  IF ~ IsSome(pt) THEN [ok |-> FALSE, out |-> out, error |-> "decrypt failed"]
                 ELSE IF read < ct_chunk_size
                 THEN [ok |-> TRUE, out |-> out \o Unwrap(pt), total |-> Len(out \o Unwrap(pt))]
                 ELSE decrypt_chunks(file, pos + read, key, chunk_size, base_nonce,
                                     counter + 1, out \o Unwrap(pt))

\* decrypt_stream: the bytes written to writer, and Ok(total) or the error
decrypt_stream(file, key) ==
    LET h == read_header(file)
    IN  IF ~ h.ok THEN [ok |-> FALSE, out |-> <<>>, error |-> h.error]
        ELSE decrypt_chunks(file, HEADER_LEN, key, h.chunk_size, h.nonce, 0, <<>>)

\* encrypted_plaintext_len on a file of total_len bytes
encrypted_plaintext_len(file) ==
    LET total_len == Len(file)
        h == read_header(file)
    IN  IF total_len < HEADER_LEN + TAG_LEN
        THEN [ok |-> FALSE, error |-> "encrypted file too small"]
        ELSE IF ~ h.ok THEN [ok |-> FALSE, error |-> h.error]
        ELSE LET ct_chunk_size == h.chunk_size + TAG_LEN
                 payload_len == total_len - HEADER_LEN
                 full_chunks == payload_len \div ct_chunk_size
                 remainder == payload_len % ct_chunk_size
             IN  IF payload_len = 0 THEN [ok |-> TRUE, len |-> 0]
                 ELSE IF remainder > 0 /\ remainder < TAG_LEN
                 THEN [ok |-> FALSE, error |-> "invalid encrypted length"]
                 ELSE [ok |-> TRUE,
                       len |-> full_chunks * h.chunk_size
                               + (IF remainder = 0 THEN 0 ELSE remainder - TAG_LEN)]

\* what the container operations leave alone
outside_crypto == <<schemavars, imports, tablevars, tagvars, importvars, conn, ret, now,
                    clientvars, mediavars, worker>>

\* encrypt_stream_internal up to the loop: the chunk size is checked, the
\* base nonce drawn and the header written
EncryptStart(base_nonce) ==
    /\ crypto.pc = "new"
    /\ crypto' =
         IF crypto.chunk_size = 0 \/ crypto.chunk_size > MAX_CHUNK_SIZE
         THEN [crypto EXCEPT !.pc = "failed",
                             !.enc = [ok |-> FALSE, error |-> "invalid chunk size"]]
         ELSE [crypto EXCEPT !.pc = "encrypting", !.base_nonce = base_nonce,
                             !.file = write_header(base_nonce, crypto.chunk_size)]
    /\ UNCHANGED outside_crypto

\* one turn of the loop of encrypt_stream_internal: reader.read(&mut buf)
\* returns n bytes, 1 <= n <= chunk_size while bytes are left, which are
\* hashed, sealed under the nonce of the counter and written
EncryptRead(n) ==
    /\ crypto.pc = "encrypting"
    /\ n >= 1
    /\ n <= crypto.chunk_size
    /\ n <= Len(crypto.plain) - crypto.pos
    /\ LET buf == SubSeq(crypto.plain, crypto.pos + 1, crypto.pos + n)
           left == Len(crypto.plain) - crypto.pos
       IN  crypto' = [crypto EXCEPT
                        !.pos = @ + n,
                        !.hasher = @ \o buf,
                        !.file = @ \o Seal(crypto.key,
                                           nonce_for_chunk(crypto.base_nonce, crypto.counter),
                                           buf),
                        !.total = @ + n,
                        !.counter = @ + 1,
                        !.short = @ \/ (n < crypto.chunk_size /\ n < left)]
    /\ UNCHANGED outside_crypto

\* reader.read returns 0: Ok(total), and the hex digest of the hasher
EncryptEnd ==
    /\ crypto.pc = "encrypting"
    /\ crypto.pos = Len(crypto.plain)
    /\ crypto' = [crypto EXCEPT !.pc = "sealed", !.input = crypto.file,
                                !.enc = [ok |-> TRUE, total |-> crypto.total,
                                         hash |-> Sha256(crypto.hasher)]]
    /\ UNCHANGED outside_crypto

\* the file is cut to its first k bytes
Truncate(k) ==
    /\ crypto.pc = "sealed"
    /\ k < Len(crypto.file)
    /\ crypto' = [crypto EXCEPT !.pc = "damaged", !.input = SubSeq(crypto.file, 1, k),
                                !.damage = "truncated"]
    /\ UNCHANGED outside_crypto

\* the bytes of the file from offset at on are replaced by bytes
Overwrite(at, bytes, damage) ==
    /\ crypto.pc = "sealed"
    /\ at + Len(bytes) <= Len(crypto.file)
    /\ crypto' = [crypto EXCEPT
                     !.pc = "damaged",
                     !.input = [i \in 1..Len(crypto.file) |->
                                   IF i > at /\ i <= at + Len(bytes)
                                   THEN bytes[i - at] ELSE crypto.file[i]],
                     !.damage = damage]
    /\ UNCHANGED outside_crypto

\* a file that is not the container encrypt_stream wrote: cut short, or with
\* another magic, version or chunk size, or with a byte of a chunk changed
Damage ==
    \/ \E k \in 0..(HEADER_LEN + MaxPlainLen * (1 + TAG_LEN)) : Truncate(k)
    \/ Overwrite(0, Bytes(<<71, 84, 65, 88>>), "magic")
    \/ \E v \in {0, 2} : Overwrite(4, <<Byte(v)>>, "version")
    \/ \E c \in {0, MAX_CHUNK_SIZE + 1} : Overwrite(5, Bytes(to_le_bytes(c)), "chunk size")
    \/ \E at \in HEADER_LEN..(HEADER_LEN + MaxPlainLen * (1 + TAG_LEN)) :
           Overwrite(at, <<Byte(255)>>, "chunk")

\* decrypt_stream on the file: the first of the three readers of the file,
\* which are called one after the other
DecryptStream ==
    /\ crypto.pc \in {"sealed", "damaged"}
    /\ crypto' = [crypto EXCEPT !.pc = "decrypted",
                                !.dec = [called |-> TRUE,
                                         result |-> decrypt_stream(crypto.input, crypto.key)]]
    /\ UNCHANGED outside_crypto

\* encrypted_plaintext_len on the file
PlaintextLen ==
    /\ crypto.pc = "decrypted"
    /\ crypto' = [crypto EXCEPT !.pc = "measured",
                                !.plen = [called |-> TRUE,
                                          result |-> encrypted_plaintext_len(crypto.input)]]
    /\ UNCHANGED outside_crypto

\* decrypt_file_parallel up to the threads: header, plaintext length, the
\* output file created and set to its length, the workers spawned
ParallelStart(workers_n) ==
    /\ crypto.pc = "measured"
    /\ crypto.par.pc = "idle"
    /\ LET h == read_header(crypto.input)
           len == encrypted_plaintext_len(crypto.input)
           fail(error) == [pc |-> "returned", workers |-> workers_n,
                           result |-> [ok |-> FALSE, error |-> error], out |-> None,
                           total_plain |-> 0, total_chunks |-> 0,
                           claimed |-> <<>>, written |-> {}, threads |-> <<>>]
       IN  crypto' = [crypto EXCEPT !.par =
             IF workers_n = 0 THEN fail("workers must be >= 1")
             ELSE IF ~ h.ok THEN fail(h.error)
             ELSE IF ~ len.ok THEN fail(len.error)
             ELSE IF len.len = 0
             THEN [pc |-> "returned", workers |-> workers_n,
                   result |-> [ok |-> TRUE, total |-> 0], out |-> Some(<<>>),
                   total_plain |-> 0, total_chunks |-> 0,
                   claimed |-> <<>>, written |-> {}, threads |-> <<>>]
             ELSE [pc |-> "running", workers |-> workers_n,
                   chunk_size |-> h.chunk_size, base_nonce |-> h.nonce,
                   total_plain |-> len.len,
                   total_chunks |-> (len.len + h.chunk_size - 1) \div h.chunk_size,
                   out |-> Some([i \in 1..len.len |-> Byte(0)]),
                   next_index |-> 0,
                   threads |-> [w \in 1..workers_n |-> [pc |-> "claim"]],
                   claimed |-> <<>>, written |-> {}]]
    /\ UNCHANGED outside_crypto

\* a worker takes the next chunk index: next_index.fetch_add(1). claimed
\* is the list of the indexes below total_chunks taken so far, each with
\* its worker. A thread runs until it is done, whether or not
\* decrypt_file_parallel has returned
WorkerClaim(w) ==
    /\ crypto.par.pc \in {"running", "returned"}
    /\ w \in DOMAIN crypto.par.threads
    /\ crypto.par.threads[w].pc = "claim"
    /\ crypto' = [crypto EXCEPT
                     !.par.next_index = @ + 1,
                     !.par.threads[w] =
                         IF crypto.par.next_index >= crypto.par.total_chunks
                         THEN [pc |-> "done", ok |-> TRUE]
                         ELSE [pc |-> "chunk", idx |-> crypto.par.next_index],
                     !.par.claimed =
                         IF crypto.par.next_index >= crypto.par.total_chunks THEN @
                         ELSE Append(@, [idx |-> crypto.par.next_index, worker |-> w])]
    /\ UNCHANGED outside_crypto

\* the offset of chunk idx in the output file taken with the stride of the
\* ciphertext chunks
PlainOffset_ct(idx, chunk_size) == idx * (chunk_size + TAG_LEN)

\* idx as u64 * chunk_size as u64, the offset of write_exact_at
PlainOffset(idx, chunk_size) == idx * chunk_size

\* the worker reads its ciphertext range, opens it and writes the plaintext
\* at its offset of the output file; written is the byte ranges [lo, hi)
\* of the write_exact_at calls so far, each with its chunk index
WorkerChunk(w) ==
    /\ crypto.par.pc \in {"running", "returned"}
    /\ w \in DOMAIN crypto.par.threads
    /\ crypto.par.threads[w].pc = "chunk"
    /\ LET p == crypto.par
           idx == p.threads[w].idx
           plain_len == IF idx = p.total_chunks - 1
                        THEN p.total_plain - idx * p.chunk_size ELSE p.chunk_size
           ct_len == plain_len + TAG_LEN
           offset == HEADER_LEN + idx * (p.chunk_size + TAG_LEN)
           pt == IF offset + ct_len > Len(crypto.input) THEN None
                 ELSE Open(crypto.key, nonce_for_chunk(p.base_nonce, idx),
                           SubSeq(crypto.input, offset + 1, offset + ct_len))
       IN  crypto' =
             IF ~ IsSome(pt)
             THEN [crypto EXCEPT !.par.threads[w] = [pc |-> "done", ok |-> FALSE]]
             ELSE [crypto EXCEPT
                     !.par.threads[w] = [pc |-> "claim"],
                     !.par.written = @ \cup {[idx |-> idx, lo |-> PlainOffset(idx, p.chunk_size),
                                              hi |-> PlainOffset(idx, p.chunk_size)
                                                       + Len(Unwrap(pt))]},
                     !.par.out = Some([i \in 1..Len(Unwrap(p.out)) |->
                                         IF i > PlainOffset(idx, p.chunk_size)
                                            /\ i <= PlainOffset(idx, p.chunk_size)
                                                       + Len(Unwrap(pt))
                                         THEN Unwrap(pt)[i - PlainOffset(idx, p.chunk_size)]
                                         ELSE Unwrap(p.out)[i]])]
    /\ UNCHANGED outside_crypto

\* a join loop that joins every handle before it looks at the results
JoinsEnd_all(handles) == \A w \in DOMAIN handles : handles[w].pc = "done"

\* for handle in handles { handle.join() ... res? }: the handles are joined
\* in spawn order and the first Err returns at once, so the loop ends when
\* every thread is done, or when the handles before the first failed one
\* are done
JoinsEnd(handles) ==
    \/ \A w \in DOMAIN handles : handles[w].pc = "done"
    \/ \E k \in DOMAIN handles :
          /\ handles[k].pc = "done" /\ ~ handles[k].ok
          /\ \A w \in 1..(k - 1) : handles[w].pc = "done" /\ handles[w].ok

\* the threads the join loop has joined when it ends
Joined(handles) ==
    {w \in DOMAIN handles :
        \A v \in 1..(w - 1) : handles[v].pc = "done" /\ handles[v].ok}

\* the joins: the error of the first failed worker in spawn order, or
\* Ok(total_plain); the threads that were not joined run on
ParallelJoin ==
    /\ crypto.par.pc = "running"
    /\ JoinsEnd(crypto.par.threads)
    /\ crypto' = [crypto EXCEPT !.par =
         [pc |-> "returned", workers |-> crypto.par.workers, out |-> crypto.par.out,
          total_plain |-> crypto.par.total_plain, total_chunks |-> crypto.par.total_chunks,
          claimed |-> crypto.par.claimed, written |-> crypto.par.written,
          chunk_size |-> crypto.par.chunk_size, base_nonce |-> crypto.par.base_nonce,
          next_index |-> crypto.par.next_index, threads |-> crypto.par.threads,
          result |-> IF \A w \in Joined(crypto.par.threads) : crypto.par.threads[w].ok
                     THEN [ok |-> TRUE, total |-> crypto.par.total_plain]
                     ELSE [ok |-> FALSE, error |-> "decrypt failed"]]]
    /\ UNCHANGED outside_crypto

\* the base nonces OsRng draws
BaseNonces == {[j \in 1..12 |-> Byte(17)]}

\* a stream of up to MaxPlainLen bytes to encrypt with a chunk size: 1 to
\* MaxChunkSize, or one that encrypt_stream_chunk refuses
InitCrypto ==
    /\ NoArchive
    /\ cache = MediaCacheNew
    /\ media = MediaIdle
    /\ worker = WorkerIdle
    /\ now = 1
    /\ \E n \in 0..MaxPlainLen, chunk_size \in (1..MaxChunkSize) \cup {0, MAX_CHUNK_SIZE + 1} :
           crypto = [pc |-> "new", plain |-> Bytes([i \in 1..n |-> i]),
                     chunk_size |-> chunk_size, key |-> MasterKey,
                     base_nonce |-> <<>>, pos |-> 0, hasher |-> <<>>, file |-> <<>>,
                     total |-> 0, counter |-> 0, short |-> FALSE, enc |-> [ok |-> FALSE],
                     input |-> <<>>, damage |-> "none",
                     dec |-> [called |-> FALSE], plen |-> [called |-> FALSE],
                     par |-> [pc |-> "idle"]]

NextCrypto ==
    \/ \E base_nonce \in BaseNonces : EncryptStart(base_nonce)
    \/ \E n \in 1..MaxChunkSize : EncryptRead(n)
    \/ EncryptEnd
    \/ Damage
    \/ DecryptStream
    \/ PlaintextLen
    \/ \E workers_n \in 0..MaxWorkers : ParallelStart(workers_n)
    \/ \E w \in 1..MaxWorkers : WorkerClaim(w) \/ WorkerChunk(w)
    \/ ParallelJoin

SpecCrypto == InitCrypto /\ [][NextCrypto]_vars

\* the file is the container encrypt_stream returned Ok for
Produced == crypto.pc \in {"decrypted", "measured"} /\ crypto.damage = "none" /\ crypto.enc.ok

\* C14: for every container produced by encrypt_stream and every worker
\* count w >= 1, decrypt_file_parallel succeeds and writes the bytes that
\* serial decrypt_stream writes, whatever the interleaving of the workers.
C14_ParallelEqualsSerial ==
    (Produced /\ crypto.par.pc = "returned" /\ crypto.par.workers >= 1) =>
        /\ crypto.par.result.ok
        /\ crypto.dec.result.ok
        /\ crypto.par.out = Some(crypto.dec.result.out)

\* C15: decrypt_stream of the output of encrypt_stream(B, K) returns B with
\* plaintext_len = len(B), and the hash of encrypt_stream_with_hash is
\* SHA-256(B): for B empty, shorter than a chunk, a multiple of the chunk
\* size, and when the reader delivers B in short reads.
C15_RoundTrip ==
    Produced =>
        /\ crypto.dec.result.ok
        /\ crypto.dec.result.out = crypto.plain
        /\ crypto.dec.result.total = Len(crypto.plain)
        /\ crypto.enc.hash = Sha256(crypto.plain)

\* C16: for every file produced by encrypt_stream, for any plaintext length
\* including 0, encrypted_plaintext_len returns Ok(n) with n the number of
\* plaintext bytes decrypt_stream writes for the file.
C16_PlaintextLenMatches ==
    (Produced /\ crypto.plen.called) =>
        /\ crypto.plen.result.ok
        /\ crypto.plen.result.len = Len(crypto.dec.result.out)

\* C17: decrypt_stream returns an error, never Ok, for a strict prefix of a
\* valid container with at least one chunk (cut in the header, in a chunk
\* or at a chunk boundary), for a wrong magic, a version other than 1, a
\* chunk size of 0 or above 8 MiB, and for a chunk whose tag does not verify.
C17_DamagedRejected ==
    (/\ crypto.pc \in {"decrypted", "measured"}
     /\ crypto.damage # "none"
     /\ ~ crypto.short
     /\ Len(crypto.file) > HEADER_LEN) =>
        ~ crypto.dec.result.ok

\* decrypt_file_parallel has spawned its workers
Spawned == crypto.par.pc \in {"running", "returned"}

\* no chunk index was claimed twice
ClaimedAtMostOnce ==
    \A i, j \in 1..Len(crypto.par.claimed) :
        crypto.par.claimed[i].idx = crypto.par.claimed[j].idx => i = j

\* every chunk index in [0, total_chunks) was claimed
AllClaimed ==
    \A idx \in 0..(crypto.par.total_chunks - 1) :
        \E i \in 1..Len(crypto.par.claimed) : crypto.par.claimed[i].idx = idx

\* the byte ranges written for different chunk indexes are pairwise disjoint
RangesDisjoint ==
    \A a, b \in crypto.par.written :
        a.idx # b.idx => (a.hi <= b.lo \/ b.hi <= a.lo)

\* the union of the written ranges is [0, total_plain)
RangesCover ==
    /\ \A a \in crypto.par.written : 0 <= a.lo /\ a.hi <= crypto.par.total_plain
    /\ \A p \in 0..(crypto.par.total_plain - 1) :
           \E a \in crypto.par.written : a.lo <= p /\ p < a.hi

\* C30 as stated: with any number of workers >= 1 every chunk index in
\* [0, total_chunks) is claimed by exactly one worker, the byte ranges
\* written for different indexes are pairwise disjoint, and on success their
\* union is [0, total_plain).
C30_EveryChunkClaimed ==
    Spawned =>
        /\ ClaimedAtMostOnce
        /\ RangesDisjoint
        /\ crypto.par.pc = "returned" =>
               /\ AllClaimed
               /\ crypto.par.result.ok => RangesCover

\* C30: with any number of workers >= 1 no chunk index is claimed by two
\* workers and the byte ranges written for different indexes are pairwise
\* disjoint; when decrypt_file_parallel returns Ok every chunk index in
\* [0, total_chunks) was claimed by exactly one worker and the union of the
\* ranges is [0, total_plain).
C30_ChunksPartitioned ==
    Spawned =>
        /\ ClaimedAtMostOnce
        /\ RangesDisjoint
        /\ (crypto.par.pc = "returned" /\ crypto.par.result.ok) =>
               /\ AllClaimed
               /\ RangesCover

\* two workers have shared the chunks of a file whose last chunk is the
\* shorter one, and decrypt_file_parallel has returned Ok
C30_Witness ==
    /\ crypto.par.pc = "returned"
    /\ crypto.par.result.ok
    /\ crypto.par.total_chunks >= 2
    /\ \E i, j \in 1..Len(crypto.par.claimed) :
           crypto.par.claimed[i].worker # crypto.par.claimed[j].worker
    /\ \E a, b \in crypto.par.written : a.hi - a.lo < b.hi - b.lo

\* C24: every message row written by the import pipeline has sender_id
\* NULL if and only if is_outgoing = 1; in particular every incoming message
\* has a non-null sender_id.
C24_SenderNullIffOutgoing ==
    \A m \in messages : (m.sender_id = None) <=> (m.is_outgoing = 1)

BeforeWithId(sort, x, y) ==
    \/ OrderByBefore(sort, x, y)
    \/ /\ ~ OrderByBefore(sort, y, x)
       /\ TextLess(AttIdText(x.a.id), AttIdText(y.a.id))

\* C26: in every sort mode of list_thread_media the rows come in a total
\* order whose last term is the attachment id, and a client that pages with
\* limit and offset until an empty page has every matching attachment
\* exactly once.
C26_MediaOrderTotal ==
    pg.phase \in {"media_paging", "media_done"} =>
        /\ \A i \in 1..(Len(pg.acc) - 1) : BeforeWithId(pg.sort, pg.acc[i], pg.acc[i + 1])
        /\ pg.phase = "media_done" =>
               /\ \A i, j \in 1..Len(pg.acc) : pg.acc[i].a.id = pg.acc[j].a.id => i = j
               /\ {pg.acc[i] : i \in 1..Len(pg.acc)}
                     = ThreadMediaRows(Decimal(1), pg.from_ts, pg.to_ts, pg.size_bucket)

\* C31: when decrypt_file_parallel has returned, with Ok or with an error,
\* every worker thread it spawned has finished, so nothing is written to
\* the output file after the return.
C31_WorkersFinishedAtReturn ==
    crypto.par.pc = "returned" =>
        \A w \in DOMAIN crypto.par.threads : crypto.par.threads[w].pc = "done"

\* the import that spawned worker w has returned the error of a worker
FailedOnWorker(w) ==
    /\ imp.pc = "idle"
    /\ imp.seq = w.wid[1]
    /\ IsSome(ret)
    /\ Unwrap(ret).result = "mapping error"
    /\ Unwrap(ret).cause = "worker"

\* the names of the blob files under attachments/
BlobNames(fs) == {b.name : b \in fs.blobs}

\* C32: when an attachment worker reports an error, map_attachments returns
\* the error and the import fails with no attachment row committed, and
\* after the import has returned none of its workers adds a blob file under
\* attachments/.
C32_WorkerErrorAbortsImport ==
    [][/\ (imp.pc = "attachments" /\ chan # <<>> /\ Head(chan).result = "Error" /\ WriterRecv)
           => /\ IsSome(ret') /\ Unwrap(ret').result = "mapping error"
              /\ attachments' = imp.before.attachments
       /\ \A w \in workers :
            (FailedOnWorker(w) /\ w.pc \in {"exists", "persist"} /\ WorkerFound(w))
                => BlobNames(files') \subseteq BlobNames(files)]_vars

\* import_backup has returned Ok
ImportOk == IsSome(ret) /\ Unwrap(ret).call = "import_backup" /\ Unwrap(ret).result = "ok"

\* C33: on a successful import the attachment statistics satisfy
\* found + missing = total and inserted <= found, whatever the number of
\* jobs and their split over the workers.
C33_AttachmentStats ==
    ImportOk =>
        LET stats == Unwrap(ret).stats
        IN  /\ stats.found + stats.missing = stats.total
            /\ stats.inserted <= stats.found

\* an import over three workers, one of them with two jobs, has returned Ok
\* with a missing file and with fewer rows inserted than files found
C33_Witness ==
    /\ ImportOk
    /\ Unwrap(ret).stats.total >= 5
    /\ Unwrap(ret).stats.missing >= 1
    /\ Unwrap(ret).stats.inserted < Unwrap(ret).stats.found

\* the values of MAX(rowid) and the rowids around the ends of the ranges
RowidSamples == {0, 1, 2, FTS_BATCH_SIZE - 1, FTS_BATCH_SIZE, FTS_BATCH_SIZE + 1,
                 2 * FTS_BATCH_SIZE - 1, 2 * FTS_BATCH_SIZE, 2 * FTS_BATCH_SIZE + 1}

\* every rowid from 1 to max_rowid is in exactly one range of the loop
RangesCoverOnce(max_rowid) ==
    LET ranges == FtsRanges(0, max_rowid)
    IN  \A rowid \in {r \in RowidSamples : 1 <= r /\ r <= max_rowid} :
            Cardinality({k \in DOMAIN ranges :
                            ranges[k].start < rowid /\ rowid <= ranges[k].end}) = 1

FtsRangesCover == \A max_rowid \in RowidSamples : RangesCoverOnce(max_rowid)

\* the message a row of message_fts is made of
FtsRowOf(m) ==
    [message_id |-> m.id, thread_id |-> m.thread_id, sender_id |-> m.sender_id,
     body |-> m.body]

\* C34: the committed FTS index holds exactly one row for each message of
\* the archive whose body is non-null and not blank and no other row, also
\* after a second import, and every rowid from 1 to the maximum is in
\* exactly one batch range of the rebuild.
C34_FtsMatchesMessages ==
    /\ {message_fts[i] : i \in DOMAIN message_fts}
          = {FtsRowOf(m) : m \in {x \in messages : Indexable(x)}}
    /\ \A i, j \in DOMAIN message_fts :
          message_fts[i].message_id = message_fts[j].message_id => i = j
    /\ FtsRangesCover

\* two imports have committed: the archive holds a message with a NULL
\* body, messages with blank bodies and two indexed messages
C34_Witness ==
    /\ Cardinality({r \in imports : r.status = "success"}) = 2
    /\ imp.pc = "idle"
    /\ \E m \in messages : m.body = None
    /\ \E m \in messages : m.body = Some(" ")
    /\ \E m \in messages : m.body = Some("")
    /\ Len(message_fts) = 2

\* the import row of the call of import_backup in progress
Executing(r) == imp.pc \notin {"idle", "opened"} /\ r.id = imp.import_id

\* C35: the status of an import row only changes from running to success
\* or from running to failed, a row that is success or failed keeps its
\* status, and the host opening the archive on its own connection does not
\* set the row of the import that is executing to failed
C35_StatusTransitions ==
    [][\A r \in imports : \A s \in imports' :
          (s.id = r.id /\ s.status # r.status)
              => /\ r.status = "running"
                 /\ s.status \in {"success", "failed"}
                 /\ ~ (HostOpen /\ Executing(r))]_vars

\* C36: when import_backup has returned after inserting its import row, with
\* Ok, a decode error (the unsupported-version error included) or a
\* mapping error, that row is success or failed and not running
C36_RowSettledAtReturn ==
    (IsSome(ret) /\ Unwrap(ret).call = "import_backup")
        => \A r \in imports : r.id = Unwrap(ret).seq => r.status \in {"success", "failed"}

\* C37: every entry of the media cache refers to a preview file that is on
\* disk, whatever the interleaving of preview requests, evictions, clear
\* and the host's clearing of previews/, so a hit returns no deleted path
C37_EntriesHaveFiles ==
    \A k \in DOMAIN cache.entries : cache.entries[k].path \in DOMAIN media.previews

\* C38: create_tag with a name that no tag of the table uses succeeds and
\* returns a tag whose id is the id of no tag that was there, however
\* close in time the calls are (two calls in one millisecond included)
C38_CreateTagFreshName ==
    [][\A name \in CrudNames, color \in CrudColors :
          (create_tag(name, color) /\ ~ \E t \in tags : t.name = name)
              => /\ Unwrap(ret').ok
                 /\ Unwrap(ret').tag \in tags'
                 /\ \A u \in tags : u.id # Unwrap(ret').tag.id]_vars

----------------------------------------------------------------------------
(* Media worker client (media_worker.rs): MediaWorkerClient::request on    *)
(* the threads of the host, the reader thread of start_reader_thread and   *)
(* the worker process behind the two pipes. A request line is [id, cmd],   *)
(* a response line is [id, ok]. The mpsc channel of a call is named by the *)
(* id of the call: rx holds the receivers that are alive, each with what   *)
(* was sent to it; pending holds the ids whose Sender is in the map.       *)

MaxRequestIds == 3 \* the ids next_id hands out
Callers == {1, 2}
WorkerCmds == {"media", "clear_cache"}

outside_worker == <<schemavars, imports, tablevars, tagvars, importvars, conn, ret, now,
                    clientvars, mediavars, crypto>>

\* the receiver of a call is dropped
DropRx(rx, id) == [i \in DOMAIN rx \ {id} |-> rx[i]]

\* request returns: its receiver is dropped with it
RequestReturn(w, c, result) ==
    [w EXCEPT !.calls[c].pc = "done",
              !.calls[c].result = Some(result),
              !.rx = DropRx(@, w.calls[c].id),
              !.returned = @ \cup {[id |-> w.calls[c].id, result |-> result]}]

\* request up to the write: next_id.fetch_add(1), mpsc::channel() and
\* guard.insert(id, tx)
RequestStart(c, cmd) ==
    /\ worker.calls[c].pc \in {"idle", "done"}
    /\ worker.next_id <= MaxRequestIds
    /\ worker' = [worker EXCEPT
                      !.next_id = @ + 1,
                      !.pending = @ \cup {worker.next_id},
                      !.rx = [i \in DOMAIN @ \cup {worker.next_id} |->
                                  IF i = worker.next_id THEN <<>> ELSE @[i]],
                      !.calls[c] = [pc |-> "write", id |-> worker.next_id, cmd |-> cmd,
                                    result |-> None]]
    /\ UNCHANGED outside_worker

\* leaving on the error of the write, with guard.remove(&id) first
WriteFailed_removes(w, c) ==
    [RequestReturn(w, c, [ok |-> FALSE, error |-> "write"]) EXCEPT
        !.pending = @ \ {w.calls[c].id}]

\* .map_err(|e| e.to_string())? on write_all and flush: request returns the
\* error of the write
WriteFailed(w, c) == RequestReturn(w, c, [ok |-> FALSE, error |-> "write"])

\* the line is written to the stdin of the worker under the stdin lock; the
\* write fails when the worker process is gone
RequestWrite(c) ==
    /\ worker.calls[c].pc = "write"
    /\ worker' = IF worker.alive
                 THEN [worker EXCEPT
                          !.stdin = Append(@, [id |-> worker.calls[c].id,
                                               cmd |-> worker.calls[c].cmd]),
                          !.calls[c].pc = "recv"]
                 ELSE WriteFailed(worker, c)
    /\ UNCHANGED outside_worker

\* rx.recv_timeout returns Ok(resp)
RequestRecv(c) ==
    /\ worker.calls[c].pc = "recv"
    /\ worker.rx[worker.calls[c].id] # <<>>
    /\ worker' = RequestReturn(worker, c,
                               [ok |-> TRUE, resp |-> Head(worker.rx[worker.calls[c].id])])
    /\ UNCHANGED outside_worker

\* rx.recv_timeout returns Err after 30 s with nothing received
RequestTimeout(c) ==
    /\ worker.calls[c].pc = "recv"
    /\ worker.rx[worker.calls[c].id] = <<>>
    /\ worker' = [worker EXCEPT !.calls[c].pc = "timed_out"]
    /\ UNCHANGED outside_worker

\* the Err arm: guard.remove(&id) and Err("worker timeout")
RequestGiveUp(c) ==
    /\ worker.calls[c].pc = "timed_out"
    /\ worker' = [RequestReturn(worker, c, [ok |-> FALSE, error |-> "worker timeout"])
                     EXCEPT !.pending = @ \ {worker.calls[c].id}]
    /\ UNCHANGED outside_worker

\* run_worker: one line of stdin is handled and its Response, which
\* carries the id of the request, is written to stdout
WorkerHandle ==
    /\ worker.alive
    /\ worker.stdin # <<>>
    /\ \E ok \in BOOLEAN :
           worker' = [worker EXCEPT
                         !.stdin = Tail(@),
                         !.stdout = Append(@, [id |-> Head(worker.stdin).id, ok |-> ok])]
    /\ UNCHANGED outside_worker

\* the worker process ends (run_worker returns an error, the process is
\* killed): what it has not read is lost
WorkerExit ==
    /\ worker.alive
    /\ worker' = [worker EXCEPT !.alive = FALSE, !.stdin = <<>>]
    /\ UNCHANGED outside_worker

\* start_reader_thread, one line: guard.remove(&response.id) and, for a
\* Sender that was in the map, tx.send(response), whose error is ignored
\* when the receiver is gone
ReaderLine ==
    /\ worker.stdout # <<>>
    /\ LET resp == Head(worker.stdout)
       IN  worker' = [worker EXCEPT
                         !.stdout = Tail(@),
                         !.pending = @ \ {resp.id},
                         !.rx = IF resp.id \in worker.pending /\ resp.id \in DOMAIN @
                                THEN [@ EXCEPT ![resp.id] = Append(@, resp)]
                                ELSE @]
    /\ UNCHANGED outside_worker

\* MediaWorkerClient::spawn has run: no request made
InitWorker ==
    /\ NoArchive
    /\ threads = {}
    /\ messages = {}
    /\ tags = {}
    /\ message_tags = {}
    /\ now = 1
    /\ pg = PgIdle
    /\ scrap = ScrapIdle
    /\ cache = MediaCacheNew
    /\ media = MediaIdle
    /\ crypto = CryptoIdle
    /\ worker = [alive |-> TRUE, next_id |-> 1, pending |-> {}, rx |-> <<>>,
                 stdin |-> <<>>, stdout |-> <<>>, returned |-> {},
                 calls |-> [c \in Callers |-> [pc |-> "idle"]]]

NextWorker ==
    \/ \E c \in Callers, cmd \in WorkerCmds : RequestStart(c, cmd)
    \/ \E c \in Callers : RequestWrite(c)
    \/ \E c \in Callers : RequestRecv(c)
    \/ \E c \in Callers : RequestTimeout(c)
    \/ \E c \in Callers : RequestGiveUp(c)
    \/ WorkerHandle
    \/ WorkerExit
    \/ ReaderLine

SpecWorker == InitWorker /\ [][NextWorker]_vars

\* C39: a call of request returns only the response that carries the id it
\* sent, and once it has returned, with a response, after the timeout or on
\* a failed write to the stdin of the worker, pending has no entry for its
\* id; a response that comes after the timeout is dropped (the call that
\* timed out has returned the error)
C39_PendingClearedAtReturn ==
    \A r \in worker.returned :
        /\ r.result.ok => r.result.resp.id = r.id
        /\ r.id \notin worker.pending
        /\ \A s \in worker.returned : s.id = r.id => s = r

\* the sha256 part of a cache key
ShaPart(key) == IF \E i \in 1..Len(key) : key[i] = 58
                THEN SubSeq(key, 1, (CHOOSE i \in 1..Len(key) :
                                        key[i] = 58 /\ \A j \in 1..(i - 1) : key[j] # 58) - 1)
                ELSE key

\* C12: after any sequence of get, insert, clear and drain_evictions the
\* cache holds at most 20 entries, and every sha256 drain_evictions returns
\* is the sha256 part of a key inserted earlier.
C12_CacheBounded ==
    /\ Cardinality(DOMAIN cache.entries) <= 20
    /\ (IsSome(ret) /\ Unwrap(ret).call = "drain_evictions") =>
           \A i \in 1..Len(Unwrap(ret).result) :
               \E key \in media.inserted : Unwrap(ret).result[i] = ShaPart(key)

\* drain_evictions returned the sha of an entry that insert evicted from a
\* full cache
C12_Witness ==
    /\ IsSome(ret) /\ Unwrap(ret).call = "drain_evictions"
    /\ Unwrap(ret).result # <<>>
    /\ Cardinality(DOMAIN cache.entries) = 20

\* the number of places of s that hold x
Count(s, x) == Cardinality({i \in 1..Len(s) : s[i] = x})

\* after is before with the shas of the keys of gone appended, one place
\* per key
Queued(queue_before, queue_after, gone) ==
    /\ Len(queue_after) = Len(queue_before) + Cardinality(gone)
    /\ SubSeq(queue_after, 1, Len(queue_before)) = queue_before
    /\ \A k \in gone :
           Count(SubSeq(queue_after, Len(queue_before) + 1, Len(queue_after)), ShaPart(k))
               = Cardinality({k2 \in gone : ShaPart(k2) = ShaPart(k)})

\* the Result the step leaves is that of a call of the method
Returned(call) == IsSome(ret') /\ Unwrap(ret').call = call

\* C23: drain_evictions returns the sha256 of every entry evicted by TTL or
\* LRU since the previous drain, in eviction order, and leaves the queue
\* empty: with no clear in between each eviction is reported by exactly one
\* drain, and a drain right after a drain returns an empty list.
C23_DrainReports ==
    [][/\ (\E key \in CacheKeys :
               \/ Returned("get") /\ CacheGet(key)
               \/ Returned("insert") /\ CacheInsert(key, PreviewPath(key))) =>
             Queued(cache.evicted, cache'.evicted,
                    DOMAIN cache.entries \ DOMAIN cache'.entries)
       /\ (Returned("drain_evictions") /\ CacheDrainEvictions) =>
             /\ Unwrap(ret').result = cache.evicted
             /\ cache'.evicted = <<>>
             /\ cache'.entries = cache.entries
       /\ CacheTick => cache' = cache]_vars

\* a drain has returned the sha of an entry evicted by LRU and, after it,
\* those of entries evicted by TTL, and has left the queue empty
C23_Witness ==
    /\ IsSome(ret) /\ Unwrap(ret).call = "drain_evictions"
    /\ Len(Unwrap(ret).result) > 2
    /\ Unwrap(ret).result[1] = Decimal(1)
    /\ cache.evicted = <<>>
    /\ DOMAIN cache.entries # {}

\* last_access of an entry of the cache once key was put in at Instant t
LastAccessWith(c, key, t, k) == IF k = key THEN t ELSE c.entries[k].last_access

\* the entries that left the cache in the step, key having been put in at
\* Instant t beforehand, were no younger than any entry that stayed
OldestLeft(key, t) ==
    \A g \in (DOMAIN cache.entries \cup {key}) \ DOMAIN cache'.entries,
       k \in DOMAIN cache'.entries :
        LastAccessWith(cache, key, t, g) <= cache'.entries[k].last_access

\* no entry of the cache with key put in at t is expired at t
NoneExpiredWith(key, t) ==
    \A k \in DOMAIN cache.entries \cup {key} :
        t - LastAccessWith(cache, key, t, k) <= MEDIA_TTL

\* C27: an insert that brings the cache above 20 entries evicts entries in
\* increasing order of last_access until 20 remain; a key refreshed by a get
\* hit, and the key just inserted, is never evicted while an entry with an
\* older last_access remains.
C27_LruOrder ==
    [][\A key \in LruKeys :
         /\ (Returned("insert") /\ CacheInsert(key, PreviewPath(key))) =>
               /\ OldestLeft(key, now)
               /\ Cardinality(DOMAIN cache'.entries) <= MAX_MEDIA_FILES
               /\ (/\ NoneExpiredWith(key, now)
                   /\ Cardinality(DOMAIN cache.entries \cup {key}) > MAX_MEDIA_FILES) =>
                      /\ Cardinality(DOMAIN cache'.entries) = MAX_MEDIA_FILES
                      /\ key \in DOMAIN cache'.entries
                      /\ cache'.entries[key].last_access = now
         /\ (Returned("get") /\ CacheGet(key)) =>
               /\ \A g \in DOMAIN cache.entries \ DOMAIN cache'.entries,
                     k \in DOMAIN cache'.entries \ {key} :
                      cache.entries[g].last_access <= cache'.entries[k].last_access
               /\ key \in DOMAIN cache'.entries =>
                      cache'.entries[key].last_access = now]_vars

\* the oldest filler was refreshed by a get hit and two inserts have evicted
\* the two fillers after it
C27_Witness ==
    /\ FillerKey(1) \in DOMAIN cache.entries
    /\ FillerKey(2) \notin DOMAIN cache.entries
    /\ FillerKey(3) \notin DOMAIN cache.entries
    /\ cache.evicted = <<Decimal(2), Decimal(3)>>
    /\ Cardinality(DOMAIN cache.entries) = MAX_MEDIA_FILES

\* the keys of the entries whose last_access is more than MEDIA_TTL before t
Expired(c, t) == {k \in DOMAIN c.entries : t - c.entries[k].last_access > MEDIA_TTL}

\* the step removed the entries of keys, deleted their preview files and
\* queued their shas
EvictedInStep(keys) ==
    \A k \in keys :
        /\ k \notin DOMAIN cache'.entries
        /\ cache.entries[k].path \notin DOMAIN media'.previews
        /\ \E i \in (Len(cache.evicted) + 1)..Len(cache'.evicted) :
               cache'.evicted[i] = ShaPart(k)

\* a get step: the TTL pass removes the expired entries and no other, and a
\* get for an expired key is a miss
GetTtlLaw(key) ==
    (Returned("get") /\ CacheGet(key)) =>
        /\ EvictedInStep(Expired(cache, now))
        /\ DOMAIN cache'.entries = DOMAIN cache.entries \ Expired(cache, now)
        /\ key \in Expired(cache, now) => Unwrap(ret').result = None

\* an insert step leaves the entries that are not expired alone unless the
\* cache is over MAX_MEDIA_FILES after the TTL pass
InsertKeepsFresh(key) ==
    Cardinality((DOMAIN cache.entries \cup {key}) \ (Expired(cache, now) \ {key}))
            <= MAX_MEDIA_FILES =>
        \A k \in DOMAIN cache.entries \ Expired(cache, now) : k \in DOMAIN cache'.entries

\* C28 as stated: an entry whose last_access is more than 300 s in the past
\* is removed, its preview file deleted and its sha256 queued by the next
\* get or insert for any key, so a get for its key is a miss; an entry
\* accessed within the last 300 s is never removed by the TTL pass.
C28_ExpiredRemovedByAnyCall ==
    [][\A key \in LruKeys :
         /\ GetTtlLaw(key)
         /\ (Returned("insert") /\ CacheInsert(key, PreviewPath(key))) =>
               /\ EvictedInStep(Expired(cache, now))
               /\ InsertKeepsFresh(key)]_vars

\* C28: an entry whose last_access is more than 300 s in the past is
\* removed, its preview file deleted and its sha256 queued by the next get
\* for any key and by the next insert of another key, so a get for its key
\* is a miss; an insert of its own key replaces it by an entry accessed now,
\* keeps the file and queues nothing for it; an entry accessed within the
\* last 300 s is never removed by the TTL pass.
C28_ExpiredRemoved ==
    [][\A key \in LruKeys :
         /\ GetTtlLaw(key)
         /\ (Returned("insert") /\ CacheInsert(key, PreviewPath(key))) =>
               /\ EvictedInStep(Expired(cache, now) \ {key})
               /\ InsertKeepsFresh(key)
               /\ key \in Expired(cache, now) =>
                      /\ key \in DOMAIN cache'.entries
                      /\ cache'.entries[key].last_access = now
                      /\ (cache.entries[key].path \in DOMAIN media.previews
                              /\ cache.entries[key].path = PreviewPath(key)) =>
                             PreviewPath(key) \in DOMAIN media'.previews
                      /\ Queued(cache.evicted, cache'.evicted,
                                DOMAIN cache.entries \ DOMAIN cache'.entries)]_vars

\* a get MEDIA_TTL after the cache was filled was a miss and has removed the
\* oldest filler, deleted its file and queued its sha, the filler that was
\* accessed 300 s ago being still there
C28_Witness ==
    /\ IsSome(ret) /\ Unwrap(ret).call = "get" /\ Unwrap(ret).result = None
    /\ FillerKey(1) \notin DOMAIN cache.entries
    /\ PreviewPath(FillerKey(1)) \notin DOMAIN media.previews
    /\ \E i \in 1..Len(cache.evicted) : cache.evicted[i] = Decimal(1)
    /\ FillerKey(MAX_MEDIA_FILES) \in DOMAIN cache.entries
    /\ now - cache.entries[FillerKey(MAX_MEDIA_FILES)].last_access = MEDIA_TTL

====
